---------------------------- MODULE Spec2Model ----------------------------
(***************************************************************************)
(* Compound interest calculator: the compounding engine, the history      *)
(* store kept in localStorage, and the form / history handlers that use   *)
(* them.                                                                   *)
(*                                                                         *)
(* Representation of JavaScript values                                     *)
(*   number    a multiple of one half, held as the count of halves:        *)
(*             Num(3) is 3, Num(2) + 1 is 2.5.  The engine's results are   *)
(*             doubles computed by Math.pow / Math.exp; they are held as   *)
(*             the expression that computes them (a term over Lit, Add,    *)
(*             Sub, Mul, Div, Pow, Exp).  IEEE operations are              *)
(*             deterministic, so equal terms denote equal doubles.         *)
(*             Whether the double of a term is finite, an infinity or NaN  *)
(*             is read from bounds computed for it (Kinds).                *)
(*   null      Null;   undefined   Undefined                               *)
(*   Date      [type |-> "Date", y, m, d, sec]: the instant, as its date   *)
(*             and second of the day in UTC; local time is read through    *)
(*             the history of the time zone.  Milliseconds are left out.   *)
(*   string    of a date: [type |-> "string", y, m, d, (sec,) part], part  *)
(*             being "datetime" (toISOString) or "date" (its first 10      *)
(*             letters)                                                    *)
(*   exception a result record with threw = TRUE                           *)
(***************************************************************************)
EXTENDS Integers, Sequences, FiniteSets, TLC

VARIABLES
    storage,            \* localStorage item 'calculationHistory'
    quota,              \* the number of records localStorage has room for
    zone,               \* the time zone of the browser
    now,                \* the clock read by Date.now() and new Date()
    saves,              \* history variable: the number of calls of saveCalculation
    issued,             \* history variable: the ids given to saved records
    last,               \* history variable: the last operation and its outcome
    engineIn,           \* argument of the engine call under test
    engineOut,          \* its result
    tab,                \* Index: the tab shown ("crashed": the tree is unmounted)
    formParams,         \* CalculatorForm: the params state
    includeDate,        \* CalculatorForm: the includeDate state
    calculationParams,  \* Index: the params the results view shows
    historyState,       \* CalculationHistory: the history state
    selectedItem,       \* CalculationHistory: the selectedItem state
    toast               \* the title of the toast the last handler raised, "" if none

vars == <<storage, quota, zone, now, saves, issued, last, engineIn, engineOut, tab,
          formParams, includeDate, calculationParams, historyState, selectedItem, toast>>

---------------------------------------------------------------------------
(* Bounds of the model *)

MaxTime == 3
MaxClock == 1
StorageQuota == 3
FormQuota == 1
MaxSaves == 3
MaxSubmits == 2

---------------------------------------------------------------------------
(* JavaScript values *)

Num(k) == 2 * k
IsInteger(x) == x % 2 = 0
Index(x) == x \div 2

Null == [type |-> "null"]
Undefined == [type |-> "undefined"]
Infinity == "Infinity"

Ok(v) == [threw |-> FALSE, value |-> v]
Threw(e) == [threw |-> TRUE, error |-> e]

---------------------------------------------------------------------------
(* Arithmetic on whole numbers, fractions and bounds on real numbers: the
   mathematics with which the doubles of the program are valued *)

\* The operators named here call one another, and are called, through the
\* one recursive operator Call, which computes each by its definition: Plus_
\* is Plus, and so on. TLC expands every call of an operator that is not
\* recursive when it prepares its statistics; a call through Call stays one
\* call.
RECURSIVE Call(_, _, _, _, _, _)
Scale_(m, e, dir) == Call("Scale", m, e, dir, 0, 0)
Compare_(x, y) == Call("Compare", x, y, 0, 0, 0)
Product_(a, b) == Call("Product", a, b, 0, 0, 0)
Times_(x, y, dir) == Call("Times", x, y, dir, 0, 0)
Plus_(x, y, dir) == Call("Plus", x, y, dir, 0, 0)
Digit_(a, more, d, s) == Call("Digit", a, more, d, s, 0)
LongDivision_(hi, lo, d) == Call("LongDivision", hi, lo, d, 0, 0)
Over_(x, y, dir) == Call("Over", x, y, dir, 0, 0)
Ratio_(q, dir) == Call("Ratio", q, dir, 0, 0, 0)
WholeRoot_(hi, lo, start) == Call("WholeRoot", hi, lo, start, 0, 0)
SquareRoot_(x, dir) == Call("SquareRoot", x, dir, 0, 0, 0)
FineTimes_(x, y, dir) == Call("FineTimes", x, y, dir, 0, 0)
FinePlus_(x, y, dir) == Call("FinePlus", x, y, dir, 0, 0)
FineRatio_(q, dir) == Call("FineRatio", q, dir, 0, 0, 0)
Widened_(x, err, dir) == Call("Widened", x, err, dir, 0, 0)
Raised_(acc, x, k, bit, dir) == Call("Raised", acc, x, k, bit, dir)
Power_(x, k, dir) == Call("Power", x, k, dir, 0, 0)
Series_(u, s, dir) == Call("Series", u, s, dir, 0, 0)
Exponential_(v, dir) == Call("Exponential", v, dir, 0, 0, 0)
Rounded_(lo, hi) == Call("Rounded", lo, hi, 0, 0, 0)
Sum_(v, w) == Call("Sum", v, w, 0, 0, 0)
Multiplied_(v, w) == Call("Multiplied", v, w, 0, 0, 0)
Inverse_(v) == Call("Inverse", v, 0, 0, 0, 0)
FractionOf_(e) == Call("FractionOf", e, 0, 0, 0, 0)
ErrorOf_(e) == Call("ErrorOf", e, 0, 0, 0, 0)
Apart_(e) == Call("Apart", e, 0, 0, 0, 0)
PlainDouble_(v) == Call("PlainDouble", v, 0, 0, 0, 0)
PowerBounds_(base, exponent, loose) == Call("PowerBounds", base, exponent, loose, 0, 0)
PowDouble_(a, b) == Call("PowDouble", a, b, 0, 0, 0)
ExpDouble_(a) == Call("ExpDouble", a, 0, 0, 0, 0)
Glance_(q, k) == Call("Glance", q, k, 0, 0, 0)
PowGlance_(a, b) == Call("PowGlance", a, b, 0, 0, 0)
ExpGlance_(a) == Call("ExpGlance", a, 0, 0, 0, 0)
Known_(v, fine) == Call("Known", v, fine, 0, 0, 0)
Kinds_(v) == Call("Kinds", v, 0, 0, 0, 0)
DaysFromCivil_(y, m, d) == Call("DaysFromCivil", y, m, d, 0, 0)
CivilFromDays_(days) == Call("CivilFromDays", days, 0, 0, 0, 0)
DateOfInstant_(t) == Call("DateOfInstant", t, 0, 0, 0, 0)
Transitions_(tz) == Call("Transitions", tz, 0, 0, 0, 0)
SummerStart_(tz, y) == Call("SummerStart", tz, y, 0, 0, 0)
SummerEnd_(tz, y) == Call("SummerEnd", tz, y, 0, 0, 0)
OffsetAt_(tz, t) == Call("OffsetAt", tz, t, 0, 0, 0)
LocalTime_(tz, t) == Call("LocalTime", tz, t, 0, 0, 0)
UTCOfLocal_(tz, local) == Call("UTCOfLocal", tz, local, 0, 0, 0)
getFullYear_(tz, date) == Call("getFullYear", tz, date, 0, 0, 0)
setFullYear_(tz, date, y) == Call("setFullYear", tz, date, y, 0, 0)
FinalAmount_(params, n) == Call("FinalAmount", params, n, 0, 0, 0)
YearAmount_(params, n, year) == Call("YearAmount", params, n, year, 0, 0)
YearDate_(tz, startDate, year) == Call("YearDate", tz, startDate, year, 0, 0)
BreakdownRow_(tz, params, n, year, yearlyBreakdown) == Call("BreakdownRow", tz, params, n, year, yearlyBreakdown)
BreakdownLoop_(tz, params, n, year, yearlyBreakdown) == Call("BreakdownLoop", tz, params, n, year, yearlyBreakdown)
calculateCompoundInterest_(tz, params) == Call("calculateCompoundInterest", tz, params, 0, 0, 0)
Settlings_(result) == Call("Settlings", result, 0, 0, 0, 0)
JSONstringify_(history) == Call("JSONstringify", history, 0, 0, 0, 0)

Abs(x) == IF x < 0 THEN 0 - x ELSE x
Sign(x) == IF x > 0 THEN 1 ELSE IF x < 0 THEN 0 - 1 ELSE 0

RECURSIVE GCD(_, _)
GCD(a, b) == IF b = 0 THEN a ELSE GCD(b, a % b)

Fraction(n, d) ==
    LET g == GCD(Abs(n), Abs(d))
    IN  [n |-> (Sign(d) * n) \div g, d |-> Abs(d) \div g]

\* A bound on a real number is <<m, e>>, standing for m * 2^e with |m| in
\* Half .. Top - 1, or it is Zero.  A bound is rounded Down or Up.
Half == 2 ^ 29
Top == 2 ^ 30
Down == 0 - 1
Up == 1
Zero == <<0, 0>>
One == <<Half, 0 - 29>>

\* 2^k as a bound
PowerOfTwo(k) == <<Half, k - 29>>

\* the number of binary digits of a whole number from 1 up
Width(m) == CHOOSE w \in 1..31 : m \div (2 ^ (w - 1)) = 1

\* the bound m * 2^e for a whole m
Scale(m, e, dir) ==
    LET w == Width(Abs(m))
        h == IF dir = Down THEN m \div 2 ELSE 0 - ((0 - m) \div 2)
    IN  IF m = 0 THEN Zero
        ELSE IF w <= 30 THEN <<m * 2 ^ (30 - w), e - (30 - w)>>
        ELSE IF Abs(h) = Top THEN <<Sign(h) * Half, e + 2>>
        ELSE <<h, e + 1>>

Minus(x) == <<0 - x[1], x[2]>>

\* -1, 0 or 1 as x is below, equal to or above y
Compare(x, y) ==
    IF Sign(x[1]) # Sign(y[1]) THEN Sign(Sign(x[1]) - Sign(y[1]))
    ELSE IF x[1] = 0 THEN 0
    ELSE IF x[2] # y[2] THEN Sign(x[1]) * Sign(x[2] - y[2])
    ELSE Sign(x[1] - y[1])

\* the least and the greatest of a set of bounds
Least(bounds) == CHOOSE x \in bounds : \A y \in bounds : Compare_(x, y) <= 0
Greatest(bounds) == CHOOSE x \in bounds : \A y \in bounds : Compare_(x, y) >= 0

\* the next bound in a direction
Beyond(x, dir) ==
    IF x[1] = 0 THEN <<dir * Half, 0 - 4000>> ELSE Scale_(x[1] + dir, x[2], dir)

\* the product of two whole numbers below 2^30 as <<high, low>>, which is
\* high * 2^30 + low
Product(a, b) ==
    LET ah == a \div 32768
        al == a % 32768
        bh == b \div 32768
        bl == b % 32768
        mid == ah * bl + al * bh
        low == (mid % 32768) * 32768 + al * bl
    IN  <<ah * bh + mid \div 32768 + low \div Top, low % Top>>

\* the bound below a bound on a number that is not negative
Below(x) == IF x[1] = 0 THEN Zero ELSE Beyond(x, Down)

\* x * y
Times(x, y, dir) ==
    LET p == Product_(Abs(x[1]), Abs(y[1]))
        s == Sign(x[1]) * Sign(y[1])
        long == p[1] >= Half
        m == IF long THEN p[1] ELSE 2 * p[1] + p[2] \div Half
        rest == IF long THEN p[2] ELSE p[2] % Half
    IN  IF s = 0 THEN Zero
        ELSE Scale_(s * m + (IF rest # 0 /\ s = dir THEN dir ELSE 0),
                   x[2] + y[2] + (IF long THEN 30 ELSE 29), dir)

\* x + y
Plus(x, y, dir) ==
    IF x[1] = 0 THEN y
    ELSE IF y[1] = 0 THEN x
    ELSE LET big == IF x[2] >= y[2] THEN x ELSE y
             small == IF x[2] >= y[2] THEN y ELSE x
             shift == big[2] - small[2]
         IN  IF shift > 30
             THEN (IF Sign(small[1]) = dir THEN Beyond(big, dir) ELSE big)
             ELSE Scale_(big[1] + (IF dir = Down THEN small[1] \div (2 ^ shift)
                                  ELSE 0 - ((0 - small[1]) \div (2 ^ shift))),
                        big[2], dir)

\* One digit of a division: the quotient and the rest of a * 2^s + more by
\* d, for d from 2^29 up, a below 2 * d, more below 2^s and s at most 15.
\* The quotient lies between the two estimates that the leading digits of d
\* give.
Digit(a, more, d, s) ==
    LET hi == a \div (2 ^ (30 - s))
        lo == (a % (2 ^ (30 - s))) * (2 ^ s) + more
        lead == d \div (2 ^ s)
        Fits(c) == LET p == Product_(c, d) IN p[1] < hi \/ (p[1] = hi /\ p[2] <= lo)
        q == CHOOSE c \in (a \div (lead + 1))..((a + 1) \div lead) : Fits(c) /\ ~Fits(c + 1)
        p == Product_(q, d)
    IN  <<q, (hi - p[1]) * Top + lo - p[2]>>

\* floor((hi * 2^30 + lo) / d) and the rest, for hi below d and d from 2^29 up
LongDivision(hi, lo, d) ==
    LET first == Digit_(hi, lo \div 32768, d, 15)
        second == Digit_(first[2], lo % 32768, d, 15)
    IN  <<first[1] * 32768 + second[1], second[2]>>

\* x / y, y not zero
Over(x, y, dir) ==
    LET s == Sign(x[1]) * Sign(y[1])
        n == Abs(x[1])
        d == Abs(y[1])
        q == IF n < d THEN LongDivision_(n, 0, d) ELSE LongDivision_(n \div 2, (n % 2) * Half, d)
    IN  IF s = 0 THEN Zero
        ELSE Scale_(s * q[1] + (IF q[2] # 0 /\ s = dir THEN dir ELSE 0),
                   x[2] - y[2] - (IF n < d THEN 30 ELSE 29), dir)

\* a whole number and a fraction as bounds
Whole(k, dir) == Scale_(k, 0, dir)

Ratio(q, dir) == Over_(Whole(q.n, dir), Whole(q.d, IF q.n >= 0 THEN 0 - dir ELSE dir), dir)

\* The largest whole r with r * r <= hi * 2^30 + lo, from a start above it:
\* four steps of Newton's method bring it within one of the root.
WholeRoot(hi, lo, start) ==
    LET Step(r) == LET t == (r + LongDivision_(hi, lo, r)[1]) \div 2 + 1
                   IN  IF t >= Top THEN Top - 1 ELSE t
        near == Step(Step(Step(Step(start))))
        Fits(c) == LET p == Product_(c, c) IN p[1] < hi \/ (p[1] = hi /\ p[2] <= lo)
    IN  CHOOSE c \in (near - 3)..near : Fits(c) /\ ~Fits(c + 1)

\* the square root of x > 0
SquareRoot(x, dir) ==
    LET odd == (x[2] % 2) # 0
        hi == IF odd THEN x[1] \div 2 ELSE x[1]
        lo == IF odd THEN (x[1] % 2) * Half ELSE 0
        r == WholeRoot_(hi, lo, IF odd THEN 759250125 ELSE Top - 1)
        p == Product_(r, r)
        exact == p[1] = hi /\ p[2] = lo
    IN  Scale_(r + (IF dir = Up /\ ~exact THEN 1 ELSE 0),
              (x[2] - (IF odd THEN 29 ELSE 30)) \div 2, dir)

\* 1 / x for a bound x >= 0; below anything when x may be zero
Inverted(x, dir) == IF x[1] = 0 THEN <<Half, 4000>> ELSE Over_(One, x, dir)

\* A fine bound is <<h, l, e>>, standing for (h * 2^30 + l) * 2^e with h in
\* Half .. Top - 1 and l in 0 .. Top - 1, or it is FineZero: sixty binary
\* digits, for the many products of a power.  Fine bounds are not negative.
FineZero == <<0, 0, 0>>
FineOne == <<Half, 0, 0 - 59>>

\* FineHuge is beyond every double and FineTiny is below every double but
\* zero: what grows past FineHuge is kept as FineHuge, what falls below
\* FineTiny as FineTiny or zero
FineHuge == <<Half, 0, 2000>>
FineTiny == <<Half, 0, 0 - 2000>>

FineKept(x, dir) ==
    IF x[1] = 0 THEN x
    ELSE IF x[3] >= FineHuge[3] THEN FineHuge
    ELSE IF x[3] <= FineTiny[3] THEN (IF dir = Down THEN FineZero ELSE FineTiny)
    ELSE x

\* the next fine bound upwards
Increment(x) ==
    IF x[2] + 1 < Top THEN <<x[1], x[2] + 1, x[3]>>
    ELSE IF x[1] + 1 < Top THEN <<x[1] + 1, 0, x[3]>>
    ELSE <<Half, 0, x[3] + 1>>

\* a fine bound as a bound, and a bound that is not negative as a fine bound
Coarse(x, dir) ==
    IF x[1] = 0 THEN Zero
    ELSE IF dir = Up /\ x[2] # 0 THEN Scale_(x[1] + 1, x[3] + 30, Up)
    ELSE <<x[1], x[3] + 30>>

Fine(x) == IF x[1] <= 0 THEN FineZero ELSE <<x[1], 0, x[2] - 30>>

\* x * y of fine bounds: the four products of their halves, added in
\* columns of thirty digits
FineTimes(x, y, dir) ==
    LET hh == Product_(x[1], y[1])
        hl == Product_(x[1], y[2])
        lh == Product_(x[2], y[1])
        ll == Product_(x[2], y[2])
        s1 == ll[1] + hl[2]
        t1 == (s1 % Top) + lh[2]
        limb1 == t1 % Top
        s2 == hl[1] + lh[1]
        t2 == (s2 % Top) + hh[2]
        u2 == (t2 % Top) + (s1 \div Top) + (t1 \div Top)
        limb2 == u2 % Top
        limb3 == hh[1] + (s2 \div Top) + (t2 \div Top) + (u2 \div Top)
        long == limb3 >= Half
        h == IF long THEN limb3 ELSE 2 * limb3 + (limb2 \div Half)
        l == IF long THEN limb2 ELSE 2 * (limb2 % Half) + (limb1 \div Half)
        rest == ll[2] # 0 \/ (IF long THEN limb1 ELSE limb1 % Half) # 0
        e == x[3] + y[3] + (IF long THEN 60 ELSE 59)
    IN  IF x[1] = 0 \/ y[1] = 0 THEN FineZero
        ELSE IF dir = Up /\ rest THEN Increment(<<h, l, e>>)
        ELSE <<h, l, e>>

\* x + y of fine bounds
FinePlus(x, y, dir) ==
    LET big == IF x[3] >= y[3] THEN x ELSE y
        small == IF x[3] >= y[3] THEN y ELSE x
        shift == big[3] - small[3]
        part == IF shift >= 60 THEN <<0, 0, TRUE>>
                ELSE IF shift >= 30
                     THEN <<0, small[1] \div (2 ^ (shift - 30)),
                            small[1] % (2 ^ (shift - 30)) # 0 \/ small[2] # 0>>
                ELSE <<small[1] \div (2 ^ shift),
                       (small[1] % (2 ^ shift)) * (2 ^ (30 - shift)) + (small[2] \div (2 ^ shift)),
                       small[2] % (2 ^ shift) # 0>>
        low == big[2] + part[2]
        high == big[1] + part[1] + (low \div Top)
        over == high >= Top
        h == IF over THEN high \div 2 ELSE high
        l == IF over THEN (high % 2) * Half + ((low % Top) \div 2) ELSE low % Top
        rest == part[3] \/ (over /\ (low % 2) = 1)
    IN  IF x[1] = 0 THEN y
        ELSE IF y[1] = 0 THEN x
        ELSE IF dir = Up /\ rest THEN Increment(<<h, l, big[3] + (IF over THEN 1 ELSE 0)>>)
        ELSE <<h, l, big[3] + (IF over THEN 1 ELSE 0)>>

\* a fraction above zero as a fine bound
FineRatio(q, dir) ==
    LET wn == Width(q.n)
        wd == Width(q.d)
        n == q.n * 2 ^ (30 - wn)
        d == q.d * 2 ^ (30 - wd)
        first == IF n < d THEN LongDivision_(n, 0, d)
                 ELSE LongDivision_(n \div 2, (n % 2) * Half, d)
        second == LongDivision_(first[2], 0, d)
        x == <<first[1], second[1], wn - wd - (IF n < d THEN 60 ELSE 59)>>
    IN  IF wn > 30 \/ wd > 30 THEN Fine(Ratio_(q, dir))
        ELSE IF dir = Up /\ second[2] # 0 THEN Increment(x)
        ELSE x

\* x - err (Down) or x + err (Up) for a fine bound x above zero and a bound
\* err that is not negative
Widened(x, err, dir) ==
    LET gap == x[3] - err[2]
        steps == IF gap >= 31 THEN 1 ELSE (err[1] \div (2 ^ gap)) + 1
        l == x[2] + dir * steps
        wide == Plus_(Coarse(x, dir), <<dir * err[1], err[2]>>, dir)
    IN  IF err[1] = 0 THEN x
        ELSE IF gap < 1 THEN Fine(wide)
        ELSE IF l >= Top
             THEN (IF x[1] + 1 < Top THEN <<x[1] + 1, l - Top, x[3]>>
                   ELSE <<Half, ((l - Top) \div 2) + 1, x[3] + 1>>)
        ELSE IF l >= 0 THEN <<x[1], l, x[3]>>
        ELSE IF x[1] - 1 >= Half THEN <<x[1] - 1, l + Top, x[3]>>
        ELSE <<2 * (Half - 1) + ((l + Top) \div Half), 2 * ((l + Top) % Half), x[3] - 1>>

\* acc^(2 * bit) * x^(k % (2 * bit)), bit being a power of two or 0: the
\* digits of k from the left, a square for each and a product for each 1
RECURSIVE Raised(_, _, _, _, _)
Raised(acc, x, k, bit, dir) ==
    IF bit = 0 \/ acc[1] = 0 \/ acc = FineHuge \/ acc = FineTiny THEN acc
    ELSE LET square == FineKept(FineTimes_(acc, acc, dir), dir)
         IN  Raised_(IF (k \div bit) % 2 = 1 THEN FineKept(FineTimes_(square, x, dir), dir)
                    ELSE square,
                    x, k, bit \div 2, dir)

\* x^k for a fine bound x and a whole k >= 0
Power(x, k, dir) ==
    IF k = 0 THEN FineOne
    ELSE IF x[1] = 0 THEN FineZero
    ELSE Raised_(FineOne, x, k, 2 ^ (Width(k) - 1), dir)

\* 1 + u/1! + ... + u^8/8! for 0 <= u < 1/256, the terms left out being less
\* than one step of a fine bound: s is << j, the sum from the term of u^j
\* on >>, and the terms before it are added from the last to the first
Factorials == <<1, 2, 6, 24, 120, 720, 5040, 40320>>

RECURSIVE Series(_, _, _)
Series(u, s, dir) ==
    IF s[1] = 0 THEN s[2]
    ELSE Series_(u,
                <<s[1] - 1,
                  FinePlus_(IF s[1] = 1 THEN FineOne
                           ELSE FineRatio_(Fraction(1, Factorials[s[1] - 1]), dir),
                           FineTimes_(u, s[2], dir), dir)>>,
                dir)

\* e^v for a fine bound v below 2^11: the series of v / 2^halvings, squared
\* again and again
Exponential(v, dir) ==
    LET halvings == IF v[1] = 0 \/ v[3] + 68 < 0 THEN 0 ELSE v[3] + 68
        sum == Series_(<<v[1], v[2], v[3] - halvings>>,
                      <<8, FineRatio_(Fraction(1, Factorials[8]), dir)>>, dir)
    IN  Power_(IF dir = Up THEN Increment(sum) ELSE sum, 2 ^ halvings, dir)

\* a bound on the size of a fraction
Size(q, dir) == Ratio_([n |-> Abs(q.n), d |-> q.d], dir)

---------------------------------------------------------------------------
(* Doubles *)

\* The magnitude of a double: whether it may be NaN, -Infinity, Infinity or
\* finite, and then the bounds lo <= hi it lies within.
Limit == <<Half, 995>>
Largest == <<Top - 1, 994>>
Smallest == <<Half, 0 - 1051>>

Magnitude(nan, ninf, pinf, fin, lo, hi) ==
    [nan |-> nan, ninf |-> ninf, pinf |-> pinf, fin |-> fin,
     lo |-> IF fin THEN lo ELSE Zero, hi |-> IF fin THEN hi ELSE Zero]

NotANumber == Magnitude(TRUE, FALSE, FALSE, FALSE, Zero, Zero)
Infinite(sign) == Magnitude(FALSE, sign < 0, sign > 0, FALSE, Zero, Zero)
Within(lo, hi) == Magnitude(FALSE, FALSE, FALSE, TRUE, lo, hi)

\* the double a bound on a real number rounds to at most, in a direction
Representable(x, dir) ==
    IF x[1] = 0 THEN Zero
    ELSE IF Compare_(<<Abs(x[1]), x[2]>>, Largest) > 0 THEN <<Sign(x[1]) * Largest[1], Largest[2]>>
    ELSE IF Compare_(<<Abs(x[1]), x[2]>>, Smallest) < 0
         THEN (IF Sign(x[1]) = dir THEN <<dir * Half, Smallest[2]>> ELSE Zero)
    ELSE x

\* the double to which a real number within lo .. hi rounds
Rounded(lo, hi) ==
    Magnitude(FALSE, Compare_(lo, Minus(Limit)) <= 0, Compare_(hi, Limit) >= 0,
              Compare_(lo, Limit) < 0 /\ Compare_(hi, Minus(Limit)) > 0,
              Representable(lo, Down), Representable(hi, Up))

MayBePositive(v) == v.pinf \/ (v.fin /\ v.hi[1] > 0)
MayBeNegative(v) == v.ninf \/ (v.fin /\ v.lo[1] < 0)
MayBeZero(v) == v.fin /\ v.lo[1] <= 0 /\ v.hi[1] >= 0
MayBeInfinite(v) == v.pinf \/ v.ninf

Negated(v) == Magnitude(v.nan, v.pinf, v.ninf, v.fin, Minus(v.hi), Minus(v.lo))

\* v + w
Sum(v, w) ==
    LET r == IF v.fin /\ w.fin THEN Rounded_(Plus_(v.lo, w.lo, Down), Plus_(v.hi, w.hi, Up))
             ELSE NotANumber
        both == v.fin /\ w.fin
    IN  Magnitude(v.nan \/ w.nan \/ (v.pinf /\ w.ninf) \/ (v.ninf /\ w.pinf),
                  (v.ninf /\ (w.fin \/ w.ninf)) \/ (w.ninf /\ v.fin) \/ (both /\ r.ninf),
                  (v.pinf /\ (w.fin \/ w.pinf)) \/ (w.pinf /\ v.fin) \/ (both /\ r.pinf),
                  both /\ r.fin, r.lo, r.hi)

\* v * w
Multiplied(v, w) ==
    LET both == v.fin /\ w.fin
        r == IF both
             THEN Rounded_(Least({Times_(a, b, Down) : a \in {v.lo, v.hi}, b \in {w.lo, w.hi}}),
                          Greatest({Times_(a, b, Up) : a \in {v.lo, v.hi}, b \in {w.lo, w.hi}}))
             ELSE NotANumber
    IN  Magnitude(v.nan \/ w.nan \/ (MayBeInfinite(v) /\ MayBeZero(w))
                        \/ (MayBeInfinite(w) /\ MayBeZero(v)),
                  (v.pinf /\ MayBeNegative(w)) \/ (v.ninf /\ MayBePositive(w))
                      \/ (w.pinf /\ MayBeNegative(v)) \/ (w.ninf /\ MayBePositive(v))
                      \/ (both /\ r.ninf),
                  (v.pinf /\ MayBePositive(w)) \/ (v.ninf /\ MayBeNegative(w))
                      \/ (w.pinf /\ MayBePositive(v)) \/ (w.ninf /\ MayBeNegative(v))
                      \/ (both /\ r.pinf),
                  both /\ r.fin, r.lo, r.hi)

\* 1 / v; the zero of a double has a sign, which the bounds do not tell
Inverse(v) ==
    LET apart == v.fin /\ ~MayBeZero(v)
        r == IF apart THEN Rounded_(Over_(One, v.hi, Down), Over_(One, v.lo, Up))
             ELSE Within(Minus(Largest), Largest)
        zero == MayBeZero(v)
        more == zero /\ (v.lo[1] # 0 \/ v.hi[1] # 0)
    IN  Magnitude(v.nan, zero \/ (apart /\ r.ninf), zero \/ (apart /\ r.pinf),
                  MayBeInfinite(v) \/ more \/ (apart /\ r.fin),
                  IF apart THEN (IF MayBeInfinite(v) THEN Least({r.lo, Zero}) ELSE r.lo)
                  ELSE IF more THEN Minus(Largest) ELSE Zero,
                  IF apart THEN (IF MayBeInfinite(v) THEN Greatest({r.hi, Zero}) ELSE r.hi)
                  ELSE IF more THEN Largest ELSE Zero)

\* what is known of a double of which nothing is known
Unknown == Magnitude(TRUE, TRUE, TRUE, TRUE, Minus(Largest), Largest)

\* A double is held as the expression that computes it.  A plain number is one
\* computed from literals by +, -, * and /: its value is the fraction of exact
\* arithmetic, from which the double differs by its roundings.
IsPlain(v) == "plain" \notin DOMAIN v
PlainNumber(op, a, b) == [type |-> "number", op |-> op, a |-> a, b |-> b]
OtherNumber(op, a, b) == [type |-> "number", op |-> op, a |-> a, b |-> b, plain |-> FALSE]
Lit(x) == [type |-> "number", op |-> "lit", x |-> x]

\* NaN is a number that no arithmetic computes from literals
NaN == [type |-> "number", op |-> "NaN", plain |-> FALSE]

RECURSIVE FractionOf(_)
FractionOf(e) ==
    IF e.op = "lit" THEN Fraction(e.x, 2)
    ELSE LET a == FractionOf_(e.a)
             b == FractionOf_(e.b)
         IN  CASE e.op = "+" -> Fraction(a.n * b.d + b.n * a.d, a.d * b.d)
               [] e.op = "-" -> Fraction(a.n * b.d - b.n * a.d, a.d * b.d)
               [] e.op = "*" -> Fraction(a.n * b.n, a.d * b.d)
               [] e.op = "/" -> Fraction(a.n * b.d, a.d * b.n)

\* half the distance between neighbouring doubles at 1
HalfStep == <<Half, 0 - 82>>

\* A bound on the distance of the double of a plain number from its fraction:
\* the roundings of its operations, each of half a step at most and none where
\* the operands are exact and the result is a whole number of halves,
\* quarters, ... and so a double.
RECURSIVE ErrorOf(_)
ErrorOf(e) ==
    IF e.op = "lit" THEN Zero
    ELSE LET ea == ErrorOf_(e.a)
             eb == ErrorOf_(e.b)
             q == FractionOf_(e)
             least == Plus_(Size(FractionOf_(e.b), Down), Minus(eb), Down)
             carried ==
                 CASE e.op \in {"+", "-"} -> Plus_(ea, eb, Up)
                   [] e.op = "*" ->
                        Plus_(Plus_(Times_(Size(FractionOf_(e.a), Up), eb, Up),
                                  Times_(Size(FractionOf_(e.b), Up), ea, Up), Up),
                             Times_(ea, eb, Up), Up)
                   [] e.op = "/" ->
                        Over_(Plus_(ea, Times_(Size(q, Up), eb, Up), Up), least, Up)
         IN  IF ea[1] = 0 /\ eb[1] = 0 /\ 2 ^ (Width(q.d) - 1) = q.d THEN Zero
             ELSE Plus_(carried, Times_(HalfStep, Plus_(Size(q, Up), carried, Up), Up), Up)

\* whether the double of a plain number is certainly not zero
Apart(e) ==
    IF e.op = "lit" THEN e.x # 0
    ELSE Compare_(ErrorOf_(e), Size(FractionOf_(e), Down)) < 0

\* what is known of the double of a plain number
PlainDouble(v) ==
    IF v.op = "lit" THEN Within(Scale_(v.x, 0 - 1, Down), Scale_(v.x, 0 - 1, Up))
    ELSE Rounded_(Plus_(Ratio_(FractionOf_(v), Down), Minus(ErrorOf_(v)), Down),
                 Plus_(Ratio_(FractionOf_(v), Up), ErrorOf_(v), Up))

\* |base|^exponent for a plain base apart from zero and a fraction above zero,
\* as << lower bound, upper bound >>: the whole part of the exponent by
\* Power, a half by SquareRoot, any other part by the powers next to it
PowerBounds(base, exponent, loose) ==
    LET q == [n |-> Abs(FractionOf_(base).n), d |-> FractionOf_(base).d]
        err == ErrorOf_(base)
        lo == Widened_(FineRatio_(q, Down), err, Down)
        hi == Widened_(FineRatio_(q, Up), err, Up)
        k == exponent.n \div exponent.d
        whole == exponent.d = 1 /\ ~loose
        less == IF whole \/ (exponent.d = 2 /\ ~loose) THEN k
                ELSE IF Compare_(Coarse(lo, Down), One) < 0 THEN k + 2
                ELSE IF k > 0 THEN k - 1 ELSE 0
        more == IF whole \/ (exponent.d = 2 /\ ~loose) THEN k
                ELSE IF Compare_(Coarse(hi, Up), One) > 0 THEN k + 2
                ELSE IF k > 0 THEN k - 1 ELSE 0
        below == Coarse(Power_(lo, less, Down), Down)
        above == Coarse(Power_(hi, more, Up), Up)
    IN  IF exponent.d = 2 /\ ~loose
        THEN <<Times_(below, SquareRoot_(Coarse(lo, Down), Down), Down),
               Times_(above, SquareRoot_(Coarse(hi, Up), Up), Up)>>
        ELSE <<below, above>>

\* Math.pow(a, b) of plain numbers
PowDouble(a, b) ==
    LET base == FractionOf_(a)
        exponent == FractionOf_(b)
        loose == ErrorOf_(b)[1] # 0
        exact == ErrorOf_(a)[1] = 0
        p == PowerBounds_(a, [n |-> Abs(exponent.n), d |-> exponent.d], loose)
        lo == IF exponent.n < 0 THEN Inverted(p[2], Down) ELSE p[1]
        hi == IF exponent.n < 0 THEN Inverted(p[1], Up) ELSE p[2]
        r == Rounded_(Below(lo), Beyond(hi, Up))
    IN  IF exponent.n = 0 /\ ~loose THEN Within(One, One)
        ELSE IF ~Apart_(a)
             THEN (IF base.n = 0 /\ exact /\ ~loose
                   THEN (IF exponent.n > 0 THEN Within(Zero, Zero) ELSE Infinite(1))
                   ELSE Unknown)
        ELSE IF base.n < 0 /\ loose THEN Unknown
        ELSE IF base.n < 0 /\ exponent.d # 1 THEN NotANumber
        ELSE IF Abs(base.n) = base.d /\ exact
             THEN (IF base.n < 0 /\ exponent.n % 2 # 0 THEN Within(Minus(One), Minus(One))
                   ELSE Within(One, One))
        ELSE IF base.n < 0 /\ exponent.n % 2 # 0 THEN Negated(r)
        ELSE r

\* Math.exp(a) of a plain number
ExpDouble(a) ==
    LET x == FractionOf_(a)
        q == [n |-> Abs(x.n), d |-> x.d]
        err == ErrorOf_(a)
        far == q.n \div q.d >= 1100
        least == IF x.n = 0 THEN FineZero ELSE Widened_(FineRatio_(q, Down), err, Down)
        most == IF x.n = 0 THEN Fine(err) ELSE Widened_(FineRatio_(q, Up), err, Up)
        lo == IF far THEN <<Half, 2000>> ELSE Coarse(Exponential_(least, Down), Down)
        hi == IF far THEN <<Half, 2000>> ELSE Coarse(Exponential_(most, Up), Up)
    IN  IF x.n = 0 /\ err[1] = 0 THEN Within(One, One)
        ELSE IF x.n = 0 THEN Rounded_(Below(Inverted(hi, Down)), Beyond(hi, Up))
        ELSE IF x.n < 0 THEN Rounded_(Below(Inverted(hi, Down)), Beyond(Inverted(lo, Up), Up))
        ELSE Rounded_(Below(lo), Beyond(hi, Up))

\* A plain number is steady when it is computed from literals above zero by
\* +, * and /: its double is then within a millionth of a millionth of its
\* fraction, and much closer.  It is exact when it is computed from literals
\* by +, - and *.
RECURSIVE Steady(_)
Steady(e) ==
    IF e.op = "lit" THEN e.x > 0
    ELSE e.op \in {"+", "*", "/"} /\ Steady(e.a) /\ Steady(e.b)

RECURSIVE IsExact(_)
IsExact(e) == e.op = "lit" \/ (e.op \in {"+", "-", "*"} /\ IsExact(e.a) /\ IsExact(e.b))

\* What is known of q^k at a glance, for a fraction q above 1 of a steady
\* number and a fraction k above 0: it lies between 1, or 2^(k * floor(log2
\* q)), and 2^(k * log2 q), where log2 q is at most 3/2 * (q - 1) and at most
\* the number of digits of q.  Nothing is known at a glance where the
\* products do not fit.
Glance(q, k) ==
    LET most == (k.n + k.d - 1) \div k.d
        least == k.n \div k.d
        digits == Width(q.n) - Width(q.d)
        near == q.n - q.d < q.d
        fits == IF near THEN q.d < Half /\ most <= (Half \div (q.n - q.d)) \div 2
                ELSE most <= 2 ^ 24
        upper == IF near THEN (3 * most * (q.n - q.d)) \div (2 * q.d) + 2
                 ELSE (digits + 1) * most + 1
        lower == IF near \/ digits < 2 \/ least = 0 THEN 0 ELSE (digits - 1) * least - 1
    IN  IF ~fits THEN Unknown
        ELSE Rounded_(Below(PowerOfTwo(lower)), PowerOfTwo(upper))

\* 1 / v for what is known of a power, which is above zero
Upturned(v) ==
    IF v = Unknown THEN Unknown
    ELSE Rounded_(IF v.pinf THEN Zero ELSE Below(Inverted(v.hi, Down)),
                 IF v.fin THEN Beyond(Inverted(v.lo, Up), Up) ELSE Zero)

\* Math.pow(a, b) at a glance; a power of 1, and a power with exponent 0, is 1
PowGlance(a, b) ==
    LET q == FractionOf_(a)
        k == FractionOf_(b)
        v == Glance_(IF q.n > q.d THEN q ELSE [n |-> q.d, d |-> q.n],
                    [n |-> Abs(k.n), d |-> k.d])
    IN  IF (k.n = 0 /\ IsExact(b)) \/ (q.n = q.d /\ ErrorOf_(a)[1] = 0) THEN Within(One, One)
        ELSE IF ~(Steady(a) /\ IsExact(b)) \/ k.n = 0 \/ q.n = q.d THEN Unknown
        ELSE IF (q.n < q.d) # (k.n < 0) THEN Upturned(v)
        ELSE v

\* Math.exp(a) at a glance: e^0 is 1, and e^x lies between 2^(7/5 * x) and
\* 2^(3/2 * x)
ExpGlance(a) ==
    LET x == FractionOf_(a)
        upper == (3 * x.n) \div (2 * x.d) + 2
        lower == (7 * x.n) \div (5 * x.d)
    IN  IF x.n = 0 /\ ErrorOf_(a)[1] = 0 THEN Within(One, One)
        ELSE IF ~Steady(a) \/ x.n >= 2 ^ 28 \/ x.d >= 2 ^ 28 THEN Unknown
        ELSE Rounded_(Below(PowerOfTwo(IF lower > 0 THEN lower - 1 ELSE 0)), PowerOfTwo(upper))

Add(a, b) == IF IsPlain(a) /\ IsPlain(b) THEN PlainNumber("+", a, b) ELSE OtherNumber("+", a, b)
Sub(a, b) == IF IsPlain(a) /\ IsPlain(b) THEN PlainNumber("-", a, b) ELSE OtherNumber("-", a, b)
Mul(a, b) == IF IsPlain(a) /\ IsPlain(b) THEN PlainNumber("*", a, b) ELSE OtherNumber("*", a, b)

\* a division by what may be zero is not plain
Div(a, b) ==
    IF IsPlain(a) /\ IsPlain(b) /\ Apart_(b) THEN PlainNumber("/", a, b)
    ELSE OtherNumber("/", a, b)

Pow(a, b) == OtherNumber("pow", a, b)
Exp(a) == [type |-> "number", op |-> "exp", a |-> a, plain |-> FALSE]

\* What is known of a double: at a glance, or (fine) by the bounds computed
\* to sixty digits
RECURSIVE Known(_, _)
Known(v, fine) ==
    IF IsPlain(v) THEN PlainDouble_(v)
    ELSE IF v.op = "NaN" THEN NotANumber
    ELSE IF v.op = "pow"
         THEN (IF ~(IsPlain(v.a) /\ IsPlain(v.b)) THEN Unknown
               ELSE IF fine THEN PowDouble_(v.a, v.b)
               ELSE PowGlance_(v.a, v.b))
    ELSE IF v.op = "exp"
         THEN (IF ~IsPlain(v.a) THEN Unknown
               ELSE IF fine THEN ExpDouble_(v.a)
               ELSE ExpGlance_(v.a))
    ELSE CHOOSE r \in {CASE v.op = "+" -> Sum_(a, b)
                         [] v.op = "-" -> Sum_(a, Negated(b))
                         [] v.op = "*" -> Multiplied_(a, b)
                         [] v.op = "/" -> Multiplied_(a, Inverse_(b)) :
                       a \in {Known_(v.a, fine)}, b \in {Known_(v.b, fine)}} : TRUE

KindsIn(m) ==
    {kind \in {"NaN", "-Infinity", "Infinity", "finite"} :
        \/ kind = "NaN" /\ m.nan
        \/ kind = "-Infinity" /\ m.ninf
        \/ kind = "Infinity" /\ m.pinf
        \/ kind = "finite" /\ m.fin}

\* The kinds of double a number may be.  A number that the engine returned
\* carries its kind; of another the bounds tell the kind, but for a number so
\* near the largest double that its bounds reach to both sides of it, which
\* is finite or is not.
Kinds(v) ==
    IF IsPlain(v) THEN {"finite"}
    ELSE IF "kind" \in DOMAIN v THEN {v.kind}
    ELSE IF Cardinality(KindsIn(Known_(v, FALSE))) = 1 THEN KindsIn(Known_(v, FALSE))
    ELSE KindsIn(Known_(v, TRUE))

\* Number.isFinite of a double
IsFinite(v) == Kinds_(v) = {"finite"}

---------------------------------------------------------------------------
(* Dates and time zones *)

\* a Date is an instant, held as its calendar date and second of the day in
\* UTC; an Invalid Date is a Date too
DateTime(y, m, d, sec) == [type |-> "Date", y |-> y, m |-> m, d |-> d, sec |-> sec]
DateObject(y, m, d) == DateTime(y, m, d, 0)
InvalidDate == [type |-> "Date", invalid |-> TRUE]
IsInvalidDate(v) == v.type = "Date" /\ "invalid" \in DOMAIN v

\* the text of a date: "datetime" is YYYY-MM-DDTHH:mm:ss.sssZ, "date" is
\* YYYY-MM-DD
DateString(y, m, d, part) == [type |-> "string", y |-> y, m |-> m, d |-> d, part |-> part]
DateTimeString(y, m, d, sec) ==
    [type |-> "string", y |-> y, m |-> m, d |-> d, sec |-> sec, part |-> "datetime"]

Truthy(v) == v.type \notin {"null", "undefined"}

\* new Date(v) for v a Date or a date string; YYYY-MM-DD is midnight in UTC
NewDate(v) ==
    IF IsInvalidDate(v) THEN InvalidDate
    ELSE IF v.type = "string" /\ v.part = "date" THEN DateTime(v.y, v.m, v.d, 0)
    ELSE DateTime(v.y, v.m, v.d, v.sec)

\* Date.prototype.toISOString: the date and the time in UTC; of an Invalid
\* Date it throws a RangeError
toISOString(date) ==
    IF IsInvalidDate(date) THEN Threw("RangeError")
    ELSE Ok(DateTimeString(date.y, date.m, date.d, date.sec))

\* s.split('T')[0] of an ISO string
SplitT0(s) == DateString(s.y, s.m, s.d, "date")

\* the days from 1 January 1970 to a date of the proleptic Gregorian
\* calendar, and the date of a number of days; a day past the end of the
\* month counts on into the next month
DaysFromCivil(y, m, d) ==
    LET yy == IF m <= 2 THEN y - 1 ELSE y
        era == yy \div 400
        yoe == yy - era * 400
        mp == (m + 9) % 12
        doy == (153 * mp + 2) \div 5 + d - 1
        doe == yoe * 365 + yoe \div 4 - yoe \div 100 + doy
    IN  era * 146097 + doe - 719468

CivilFromDays(days) ==
    LET z == days + 719468
        era == z \div 146097
        doe == z - era * 146097
        yoe == (doe - doe \div 1460 + doe \div 36524 - doe \div 146096) \div 365
        doy == doe - (365 * yoe + yoe \div 4 - yoe \div 100)
        mp == (5 * doy + 2) \div 153
        d == doy - (153 * mp + 2) \div 5 + 1
        m == IF mp < 10 THEN mp + 3 ELSE mp - 9
    IN  [y |-> yoe + era * 400 + (IF m <= 2 THEN 1 ELSE 0), m |-> m, d |-> d]

SecondsPerDay == 86400

\* An instant, and the reading of a clock, is << days from 1 January 1970,
\* second of the day >>.
Instant(date) == <<DaysFromCivil_(date.y, date.m, date.d), date.sec>>

Shifted(t, seconds) ==
    <<t[1] + (t[2] + seconds) \div SecondsPerDay, (t[2] + seconds) % SecondsPerDay>>

Earlier(t, u) == t[1] < u[1] \/ (t[1] = u[1] /\ t[2] < u[2])

\* the time values of a Date reach 100 000 000 days either way from the
\* epoch; beyond them is the Invalid Date (TimeClip)
MaxDay == 100000000

DateOfInstant(t) ==
    IF t[1] < 0 - MaxDay \/ t[1] > MaxDay \/ (t[1] = MaxDay /\ t[2] > 0) THEN InvalidDate
    ELSE LET civil == CivilFromDays_(t[1])
         IN  DateTime(civil.y, civil.m, civil.d, t[2])

\* the day of the week, 0 for Sunday
Weekday(days) == (days + 4) % 7

\* the first Sunday on or after a day of a month
SundayFrom(y, m, d) ==
    DaysFromCivil_(y, m, d) + ((7 - Weekday(DaysFromCivil_(y, m, d))) % 7)

\* The time zones of the model, as the time zone database (2026b) has them:
\* the offset from UTC, in seconds, before the first change of the clocks,
\* the changes up to the last that the database lists, each as << day,
\* second of the day, offset from then on >>, and the rule of the years after.
Zones == {"UTC", "Asia/Manila", "America/New_York", "Europe/London"}

FirstOffset(tz) ==
    CASE tz = "Asia/Manila" -> 0 - 57368
      [] tz = "America/New_York" -> 0 - 17762
      [] tz = "Europe/London" -> 0 - 75
      [] OTHER -> 0

ManilaTransitions ==
    <<<<0 - 45656, 57368, 29032>>, <<0 - 25684, 14400, 28800>>,
      <<0 - 12115, 57600, 32400>>, <<0 - 12039, 54000, 28800>>,
      <<0 - 10244, 57600, 32400>>, <<0 - 8798, 54000, 28800>>,
      <<0 - 5744, 57600, 32400>>, <<0 - 5690, 54000, 28800>>,
      <<2642, 57600, 32400>>, <<2820, 54000, 28800>>, <<7444, 57600, 32400>>,
      <<7513, 54000, 28800>>>>

NewYorkTransitions ==
    <<<<0 - 31455, 61200, 0 - 18000>>, <<0 - 18904, 25200, 0 - 14400>>,
      <<0 - 18694, 21600, 0 - 18000>>, <<0 - 18540, 25200, 0 - 14400>>,
      <<0 - 18330, 21600, 0 - 18000>>, <<0 - 18176, 25200, 0 - 14400>>,
      <<0 - 17959, 21600, 0 - 18000>>, <<0 - 17784, 25200, 0 - 14400>>,
      <<0 - 17630, 21600, 0 - 18000>>, <<0 - 17413, 25200, 0 - 14400>>,
      <<0 - 17266, 21600, 0 - 18000>>, <<0 - 17049, 25200, 0 - 14400>>,
      <<0 - 16895, 21600, 0 - 18000>>, <<0 - 16685, 25200, 0 - 14400>>,
      <<0 - 16531, 21600, 0 - 18000>>, <<0 - 16321, 25200, 0 - 14400>>,
      <<0 - 16167, 21600, 0 - 18000>>, <<0 - 15957, 25200, 0 - 14400>>,
      <<0 - 15803, 21600, 0 - 18000>>, <<0 - 15593, 25200, 0 - 14400>>,
      <<0 - 15439, 21600, 0 - 18000>>, <<0 - 15222, 25200, 0 - 14400>>,
      <<0 - 15068, 21600, 0 - 18000>>, <<0 - 14858, 25200, 0 - 14400>>,
      <<0 - 14704, 21600, 0 - 18000>>, <<0 - 14494, 25200, 0 - 14400>>,
      <<0 - 14340, 21600, 0 - 18000>>, <<0 - 14130, 25200, 0 - 14400>>,
      <<0 - 13976, 21600, 0 - 18000>>, <<0 - 13766, 25200, 0 - 14400>>,
      <<0 - 13612, 21600, 0 - 18000>>, <<0 - 13395, 25200, 0 - 14400>>,
      <<0 - 13248, 21600, 0 - 18000>>, <<0 - 13031, 25200, 0 - 14400>>,
      <<0 - 12877, 21600, 0 - 18000>>, <<0 - 12667, 25200, 0 - 14400>>,
      <<0 - 12513, 21600, 0 - 18000>>, <<0 - 12303, 25200, 0 - 14400>>,
      <<0 - 12149, 21600, 0 - 18000>>, <<0 - 11939, 25200, 0 - 14400>>,
      <<0 - 11785, 21600, 0 - 18000>>, <<0 - 11575, 25200, 0 - 14400>>,
      <<0 - 11421, 21600, 0 - 18000>>, <<0 - 11204, 25200, 0 - 14400>>,
      <<0 - 11057, 21600, 0 - 18000>>, <<0 - 10840, 25200, 0 - 14400>>,
      <<0 - 10686, 21600, 0 - 18000>>, <<0 - 10476, 25200, 0 - 14400>>,
      <<0 - 10322, 21600, 0 - 18000>>, <<0 - 10188, 25200, 0 - 14400>>,
      <<0 - 8859, 21600, 0 - 18000>>, <<0 - 8649, 25200, 0 - 14400>>,
      <<0 - 8495, 21600, 0 - 18000>>, <<0 - 8285, 25200, 0 - 14400>>,
      <<0 - 8131, 21600, 0 - 18000>>, <<0 - 7921, 25200, 0 - 14400>>,
      <<0 - 7767, 21600, 0 - 18000>>, <<0 - 7557, 25200, 0 - 14400>>,
      <<0 - 7403, 21600, 0 - 18000>>, <<0 - 7186, 25200, 0 - 14400>>,
      <<0 - 7039, 21600, 0 - 18000>>, <<0 - 6822, 25200, 0 - 14400>>,
      <<0 - 6668, 21600, 0 - 18000>>, <<0 - 6458, 25200, 0 - 14400>>,
      <<0 - 6304, 21600, 0 - 18000>>, <<0 - 6094, 25200, 0 - 14400>>,
      <<0 - 5940, 21600, 0 - 18000>>, <<0 - 5730, 25200, 0 - 14400>>,
      <<0 - 5576, 21600, 0 - 18000>>, <<0 - 5366, 25200, 0 - 14400>>,
      <<0 - 5177, 21600, 0 - 18000>>, <<0 - 4995, 25200, 0 - 14400>>,
      <<0 - 4813, 21600, 0 - 18000>>, <<0 - 4631, 25200, 0 - 14400>>,
      <<0 - 4449, 21600, 0 - 18000>>, <<0 - 4267, 25200, 0 - 14400>>,
      <<0 - 4085, 21600, 0 - 18000>>, <<0 - 3903, 25200, 0 - 14400>>,
      <<0 - 3721, 21600, 0 - 18000>>, <<0 - 3539, 25200, 0 - 14400>>,
      <<0 - 3350, 21600, 0 - 18000>>, <<0 - 3168, 25200, 0 - 14400>>,
      <<0 - 2986, 21600, 0 - 18000>>, <<0 - 2804, 25200, 0 - 14400>>,
      <<0 - 2622, 21600, 0 - 18000>>, <<0 - 2440, 25200, 0 - 14400>>,
      <<0 - 2258, 21600, 0 - 18000>>, <<0 - 2076, 25200, 0 - 14400>>,
      <<0 - 1894, 21600, 0 - 18000>>, <<0 - 1712, 25200, 0 - 14400>>,
      <<0 - 1523, 21600, 0 - 18000>>, <<0 - 1348, 25200, 0 - 14400>>,
      <<0 - 1159, 21600, 0 - 18000>>, <<0 - 977, 25200, 0 - 14400>>,
      <<0 - 795, 21600, 0 - 18000>>, <<0 - 613, 25200, 0 - 14400>>,
      <<0 - 431, 21600, 0 - 18000>>, <<0 - 249, 25200, 0 - 14400>>,
      <<0 - 67, 21600, 0 - 18000>>, <<115, 25200, 0 - 14400>>,
      <<297, 21600, 0 - 18000>>, <<479, 25200, 0 - 14400>>,
      <<668, 21600, 0 - 18000>>, <<850, 25200, 0 - 14400>>,
      <<1032, 21600, 0 - 18000>>, <<1214, 25200, 0 - 14400>>,
      <<1396, 21600, 0 - 18000>>, <<1466, 25200, 0 - 14400>>,
      <<1760, 21600, 0 - 18000>>, <<1879, 25200, 0 - 14400>>,
      <<2124, 21600, 0 - 18000>>, <<2306, 25200, 0 - 14400>>,
      <<2495, 21600, 0 - 18000>>, <<2670, 25200, 0 - 14400>>,
      <<2859, 21600, 0 - 18000>>, <<3041, 25200, 0 - 14400>>,
      <<3223, 21600, 0 - 18000>>, <<3405, 25200, 0 - 14400>>,
      <<3587, 21600, 0 - 18000>>, <<3769, 25200, 0 - 14400>>,
      <<3951, 21600, 0 - 18000>>, <<4133, 25200, 0 - 14400>>,
      <<4315, 21600, 0 - 18000>>, <<4497, 25200, 0 - 14400>>,
      <<4686, 21600, 0 - 18000>>, <<4861, 25200, 0 - 14400>>,
      <<5050, 21600, 0 - 18000>>, <<5232, 25200, 0 - 14400>>,
      <<5414, 21600, 0 - 18000>>, <<5596, 25200, 0 - 14400>>,
      <<5778, 21600, 0 - 18000>>, <<5960, 25200, 0 - 14400>>,
      <<6142, 21600, 0 - 18000>>, <<6303, 25200, 0 - 14400>>,
      <<6506, 21600, 0 - 18000>>, <<6667, 25200, 0 - 14400>>,
      <<6877, 21600, 0 - 18000>>, <<7031, 25200, 0 - 14400>>,
      <<7241, 21600, 0 - 18000>>, <<7395, 25200, 0 - 14400>>,
      <<7605, 21600, 0 - 18000>>, <<7766, 25200, 0 - 14400>>,
      <<7969, 21600, 0 - 18000>>, <<8130, 25200, 0 - 14400>>,
      <<8333, 21600, 0 - 18000>>, <<8494, 25200, 0 - 14400>>,
      <<8704, 21600, 0 - 18000>>, <<8858, 25200, 0 - 14400>>,
      <<9068, 21600, 0 - 18000>>, <<9222, 25200, 0 - 14400>>,
      <<9432, 21600, 0 - 18000>>, <<9593, 25200, 0 - 14400>>,
      <<9796, 21600, 0 - 18000>>, <<9957, 25200, 0 - 14400>>,
      <<10160, 21600, 0 - 18000>>, <<10321, 25200, 0 - 14400>>,
      <<10524, 21600, 0 - 18000>>, <<10685, 25200, 0 - 14400>>,
      <<10895, 21600, 0 - 18000>>, <<11049, 25200, 0 - 14400>>,
      <<11259, 21600, 0 - 18000>>, <<11413, 25200, 0 - 14400>>,
      <<11623, 21600, 0 - 18000>>, <<11784, 25200, 0 - 14400>>,
      <<11987, 21600, 0 - 18000>>, <<12148, 25200, 0 - 14400>>,
      <<12351, 21600, 0 - 18000>>, <<12512, 25200, 0 - 14400>>,
      <<12722, 21600, 0 - 18000>>, <<12876, 25200, 0 - 14400>>,
      <<13086, 21600, 0 - 18000>>, <<13240, 25200, 0 - 14400>>,
      <<13450, 21600, 0 - 18000>>, <<13583, 25200, 0 - 14400>>,
      <<13821, 21600, 0 - 18000>>, <<13947, 25200, 0 - 14400>>,
      <<14185, 21600, 0 - 18000>>>>

LondonTransitions ==
    <<<<0 - 44591, 75, 0>>, <<0 - 19583, 7200, 3600>>, <<0 - 19450, 7200, 0>>,
      <<0 - 19261, 7200, 3600>>, <<0 - 19099, 7200, 0>>,
      <<0 - 18911, 7200, 3600>>, <<0 - 18721, 7200, 0>>,
      <<0 - 18540, 7200, 3600>>, <<0 - 18357, 7200, 0>>,
      <<0 - 18176, 7200, 3600>>, <<0 - 17965, 7200, 0>>,
      <<0 - 17805, 7200, 3600>>, <<0 - 17622, 7200, 0>>,
      <<0 - 17448, 7200, 3600>>, <<0 - 17252, 7200, 0>>,
      <<0 - 17056, 7200, 3600>>, <<0 - 16909, 7200, 0>>,
      <<0 - 16699, 7200, 3600>>, <<0 - 16538, 7200, 0>>,
      <<0 - 16328, 7200, 3600>>, <<0 - 16160, 7200, 0>>,
      <<0 - 15964, 7200, 3600>>, <<0 - 15796, 7200, 0>>,
      <<0 - 15607, 7200, 3600>>, <<0 - 15432, 7200, 0>>,
      <<0 - 15229, 7200, 3600>>, <<0 - 15061, 7200, 0>>,
      <<0 - 14865, 7200, 3600>>, <<0 - 14697, 7200, 0>>,
      <<0 - 14508, 7200, 3600>>, <<0 - 14333, 7200, 0>>,
      <<0 - 14137, 7200, 3600>>, <<0 - 13969, 7200, 0>>,
      <<0 - 13773, 7200, 3600>>, <<0 - 13605, 7200, 0>>,
      <<0 - 13416, 7200, 3600>>, <<0 - 13234, 7200, 0>>,
      <<0 - 13038, 7200, 3600>>, <<0 - 12870, 7200, 0>>,
      <<0 - 12681, 7200, 3600>>, <<0 - 12506, 7200, 0>>,
      <<0 - 12310, 7200, 3600>>, <<0 - 12142, 7200, 0>>,
      <<0 - 11946, 7200, 3600>>, <<0 - 11778, 7200, 0>>,
      <<0 - 11589, 7200, 3600>>, <<0 - 11414, 7200, 0>>,
      <<0 - 11218, 7200, 3600>>, <<0 - 11001, 7200, 0>>,
      <<0 - 10903, 7200, 3600>>, <<0 - 10469, 3600, 7200>>,
      <<0 - 10371, 3600, 3600>>, <<0 - 10133, 3600, 7200>>,
      <<0 - 10007, 3600, 3600>>, <<0 - 9769, 3600, 7200>>,
      <<0 - 9636, 3600, 3600>>, <<0 - 9405, 3600, 7200>>,
      <<0 - 9237, 3600, 3600>>, <<0 - 9040, 3600, 7200>>,
      <<0 - 8936, 3600, 3600>>, <<0 - 8852, 7200, 0>>,
      <<0 - 8663, 7200, 3600>>, <<0 - 8488, 7200, 0>>,
      <<0 - 8327, 7200, 3600>>, <<0 - 8299, 3600, 7200>>,
      <<0 - 8180, 3600, 3600>>, <<0 - 8096, 7200, 0>>,
      <<0 - 7963, 7200, 3600>>, <<0 - 7732, 7200, 0>>,
      <<0 - 7578, 7200, 3600>>, <<0 - 7368, 7200, 0>>,
      <<0 - 7200, 7200, 3600>>, <<0 - 7011, 7200, 0>>,
      <<0 - 6836, 7200, 3600>>, <<0 - 6647, 7200, 0>>,
      <<0 - 6465, 7200, 3600>>, <<0 - 6276, 7200, 0>>,
      <<0 - 6101, 7200, 3600>>, <<0 - 5933, 7200, 0>>,
      <<0 - 5744, 7200, 3600>>, <<0 - 5569, 7200, 0>>,
      <<0 - 5373, 7200, 3600>>, <<0 - 5205, 7200, 0>>,
      <<0 - 5002, 7200, 3600>>, <<0 - 4834, 7200, 0>>,
      <<0 - 4645, 7200, 3600>>, <<0 - 4470, 7200, 0>>,
      <<0 - 4274, 7200, 3600>>, <<0 - 4106, 7200, 0>>,
      <<0 - 3910, 7200, 3600>>, <<0 - 3742, 7200, 0>>,
      <<0 - 3553, 7200, 3600>>, <<0 - 3378, 7200, 0>>,
      <<0 - 3203, 7200, 3600>>, <<0 - 2986, 7200, 0>>,
      <<0 - 2839, 7200, 3600>>, <<0 - 2622, 7200, 0>>,
      <<0 - 2468, 7200, 3600>>, <<0 - 2258, 7200, 0>>,
      <<0 - 2111, 7200, 3600>>, <<0 - 1894, 7200, 0>>,
      <<0 - 1747, 7200, 3600>>, <<0 - 1530, 7200, 0>>,
      <<0 - 1383, 7200, 3600>>, <<0 - 1166, 7200, 0>>,
      <<0 - 1019, 7200, 3600>>, <<0 - 795, 7200, 0>>, <<0 - 683, 7200, 3600>>,
      <<668, 7200, 0>>, <<808, 7200, 3600>>, <<1032, 7200, 0>>,
      <<1172, 7200, 3600>>, <<1396, 7200, 0>>, <<1536, 7200, 3600>>,
      <<1760, 7200, 0>>, <<1900, 7200, 3600>>, <<2124, 7200, 0>>,
      <<2271, 7200, 3600>>, <<2488, 7200, 0>>, <<2635, 7200, 3600>>,
      <<2852, 7200, 0>>, <<2999, 7200, 3600>>, <<3223, 7200, 0>>,
      <<3363, 7200, 3600>>, <<3587, 7200, 0>>, <<3727, 7200, 3600>>,
      <<3951, 7200, 0>>, <<4105, 3600, 3600>>, <<4315, 3600, 0>>,
      <<4469, 3600, 3600>>, <<4679, 3600, 0>>, <<4833, 3600, 3600>>,
      <<5043, 3600, 0>>, <<5197, 3600, 3600>>, <<5414, 3600, 0>>,
      <<5568, 3600, 3600>>, <<5778, 3600, 0>>, <<5932, 3600, 3600>>,
      <<6142, 3600, 0>>, <<6296, 3600, 3600>>, <<6506, 3600, 0>>,
      <<6660, 3600, 3600>>, <<6870, 3600, 0>>, <<7024, 3600, 3600>>,
      <<7241, 3600, 0>>, <<7388, 3600, 3600>>, <<7605, 3600, 0>>,
      <<7759, 3600, 3600>>, <<7969, 3600, 0>>, <<8123, 3600, 3600>>,
      <<8333, 3600, 0>>, <<8487, 3600, 3600>>, <<8697, 3600, 0>>,
      <<8851, 3600, 3600>>, <<9061, 3600, 0>>, <<9215, 3600, 3600>>,
      <<9425, 3600, 0>>, <<9586, 3600, 3600>>, <<9796, 3600, 0>>,
      <<9950, 3600, 3600>>, <<10160, 3600, 0>>>>

Transitions(tz) ==
    CASE tz = "Asia/Manila" -> ManilaTransitions
      [] tz = "America/New_York" -> NewYorkTransitions
      [] tz = "Europe/London" -> LondonTransitions
      [] OTHER -> <<>>

\* the offset in winter, and the instants at which summer time starts and
\* ends in a year after the listed changes: in New York at 2:00 of the clock
\* on the first Sunday from 8 March and from 1 November, in London at 1:00
\* UTC on the first Sunday from 25 March and from 25 October
StandardOffset(tz) == IF tz = "America/New_York" THEN 0 - 18000 ELSE 0

SummerStart(tz, y) ==
    IF tz = "America/New_York" THEN <<SundayFrom(y, 3, 8), 25200>>
    ELSE <<SundayFrom(y, 3, 25), 3600>>

SummerEnd(tz, y) ==
    IF tz = "America/New_York" THEN <<SundayFrom(y, 11, 1), 21600>>
    ELSE <<SundayFrom(y, 10, 25), 3600>>

\* the offset of local time from UTC at an instant, in seconds
OffsetAt(tz, t) ==
    LET list == Transitions_(tz)
        past == {i \in 1..Len(list) : ~Earlier(t, <<list[i][1], list[i][2]>>)}
        y == CivilFromDays_(t[1]).y
    IN  IF past = {} THEN FirstOffset(tz)
        ELSE IF Cardinality(past) < Len(list) \/ tz = "Asia/Manila"
             THEN list[Cardinality(past)][3]
        ELSE IF ~Earlier(t, SummerStart_(tz, y)) /\ Earlier(t, SummerEnd_(tz, y))
             THEN StandardOffset(tz) + 3600
        ELSE StandardOffset(tz)

\* the local time of an instant: what a clock of the zone shows
LocalTime(tz, t) == Shifted(t, OffsetAt_(tz, t))

\* The instant of a local time.  A local time that the clocks show twice is
\* the earlier instant; one that they skip is read with the offset before
\* the change.
UTCOfLocal(tz, local) ==
    LET before == OffsetAt_(tz, Shifted(local, 0 - SecondsPerDay))
        after == OffsetAt_(tz, Shifted(local, SecondsPerDay))
        first == Shifted(local, 0 - before)
        second == Shifted(local, 0 - after)
    IN  IF OffsetAt_(tz, second) = after
           /\ (OffsetAt_(tz, first) # before \/ Earlier(second, first))
        THEN second
        ELSE first

\* the clock counts days from 28 February 2024
DateAt(t) ==
    IF t = 0 THEN DateObject(2024, 2, 28)
    ELSE IF t = 1 THEN DateObject(2024, 2, 29)
    ELSE DateObject(2024, 3, t - 1)

\* Date.prototype.getFullYear: the year in local time, tz being the time
\* zone of the process; NaN of an Invalid Date
getFullYear(tz, date) ==
    IF IsInvalidDate(date) THEN NaN
    ELSE Lit(Num(CivilFromDays_(LocalTime_(tz, Instant(date))[1]).y))

\* the years that a Date reaches lie within these of year 0
MaxYear == 300000

\* Date.prototype.setFullYear(y): the year of the local time is replaced by
\* the whole part of y; month, day and time of day of the local time are
\* kept, and 29 February of a year that has none counts on into 1 March.  A
\* year that is NaN makes the Invalid Date, and so does a year beyond the
\* range of Date; an Invalid Date is taken as local time 0.
setFullYear(tz, date, y) ==
    LET local == IF IsInvalidDate(date) THEN <<0, 0>> ELSE LocalTime_(tz, Instant(date))
        civil == CivilFromDays_(local[1])
        year == Sign(FractionOf_(y).n) * (Abs(FractionOf_(y).n) \div FractionOf_(y).d)
        moved == DaysFromCivil_(year, civil.m, 1) + civil.d - 1
    IN  IF ~IsPlain(y) THEN InvalidDate
        ELSE IF Abs(year) > MaxYear THEN InvalidDate
        ELSE DateOfInstant_(UTCOfLocal_(tz, <<moved, local[2]>>))

---------------------------------------------------------------------------
(* The compounding engine *)

Frequencies ==
    {"annually", "semi-annually", "quarterly", "monthly", "weekly", "daily",
     "continuously"}

\* mutant: 'weekly' is not recognised and falls to the default
getFrequencyValueWithoutWeekly(frequency) ==
    CASE frequency = "annually" -> Num(1)
      [] frequency = "semi-annually" -> Num(2)
      [] frequency = "quarterly" -> Num(4)
      [] frequency = "monthly" -> Num(12)
      [] frequency = "daily" -> Num(365)
      [] frequency = "continuously" -> Infinity
      [] OTHER -> Num(1)

getFrequencyValue(frequency) ==
    CASE frequency = "annually" -> Num(1)
      [] frequency = "semi-annually" -> Num(2)
      [] frequency = "quarterly" -> Num(4)
      [] frequency = "monthly" -> Num(12)
      [] frequency = "weekly" -> Num(52)
      [] frequency = "daily" -> Num(365)
      [] frequency = "continuously" -> Infinity
      [] OTHER -> Num(1)

getFormula(frequency) ==
    IF frequency = "continuously" THEN "A = P × e^(rt)" ELSE "A = P(1 + r/n)^(nt)"

\* lines 85-89: the final amount
FinalAmount(params, n) ==
    IF params.frequency = "continuously"
    THEN Mul(Lit(params.principal),
             Exp(Mul(Div(Lit(params.rate), Lit(Num(100))), Lit(params.time))))
    ELSE Mul(Lit(params.principal),
             Pow(Add(Lit(Num(1)), Div(Div(Lit(params.rate), Lit(Num(100))), Lit(n))),
                 Mul(Lit(n), Lit(params.time))))

\* mutant: the loop compounds once a year whatever the frequency
YearAmountAnnually(params, n, year) ==
    IF params.frequency = "continuously"
    THEN Mul(Lit(params.principal),
             Exp(Mul(Div(Lit(params.rate), Lit(Num(100))), Lit(year))))
    ELSE Mul(Lit(params.principal),
             Pow(Add(Lit(Num(1)), Div(Lit(params.rate), Lit(Num(100)))), Lit(year)))

\* lines 100-104: the amount at the end of a year
YearAmount(params, n, year) ==
    IF params.frequency = "continuously"
    THEN Mul(Lit(params.principal),
             Exp(Mul(Div(Lit(params.rate), Lit(Num(100))), Lit(year))))
    ELSE Mul(Lit(params.principal),
             Pow(Add(Lit(Num(1)), Div(Div(Lit(params.rate), Lit(Num(100))), Lit(n))),
                 Mul(Lit(n), Lit(year))))

\* lines 109-114: the date of a year's row
YearDate(tz, startDate, year) ==
    IF Truthy(startDate)
    THEN LET date == NewDate(startDate)
             text == toISOString(setFullYear_(tz, date,
                                             Add(getFullYear_(tz, date), Lit(year))))
         IN  IF text.threw THEN text ELSE Ok(SplitT0(text.value))
    ELSE Ok(Undefined)

\* mutant: the interest of every year is counted from the principal
BreakdownRowFromPrincipal(tz, params, n, year, yearlyBreakdown) ==
    LET yearAmount == YearAmount_(params, n, year)
        yearDate == YearDate_(tz, params.startDate, year)
    IN  IF yearDate.threw THEN yearDate
        ELSE Ok([year |-> year,
                 amount |-> yearAmount,
                 interestEarned |-> Sub(yearAmount, Lit(params.principal)),
                 date |-> yearDate.value])

\* lines 98-121: the body of the loop: the row it pushes, or the RangeError
\* of line 113
BreakdownRow(tz, params, n, year, yearlyBreakdown) ==
    LET yearAmount == YearAmount_(params, n, year)
        previousAmount ==
            IF year = Num(1) THEN Lit(params.principal)
            ELSE yearlyBreakdown[Index(year - Num(2)) + 1].amount
        interestEarned == Sub(yearAmount, previousAmount)
        yearDate == YearDate_(tz, params.startDate, year)
    IN  IF yearDate.threw THEN yearDate
        ELSE Ok([year |-> year,
                 amount |-> yearAmount,
                 interestEarned |-> interestEarned,
                 date |-> yearDate.value])

LoopFirstYear == Num(1)

\* mutant: the loop stops one year early
LoopStopsEarly(year, time) == year < time

LoopContinues(year, time) == year <= time

\* lines 97-122: for (let year = 1; year <= time; year++)
RECURSIVE BreakdownLoop(_, _, _, _, _)
BreakdownLoop(tz, params, n, year, yearlyBreakdown) ==
    IF LoopContinues(year, params.time)
    THEN LET row == BreakdownRow_(tz, params, n, year, yearlyBreakdown)
         IN  IF row.threw THEN row
             ELSE BreakdownLoop_(tz, params, n, year + Num(1),
                                Append(yearlyBreakdown, row.value))
    ELSE Ok(yearlyBreakdown)

\* mutant: the total interest is the final amount
calculateCompoundInterestWithoutSubtraction(tz, params) ==
    LET n == getFrequencyValue(params.frequency)
        finalAmount == FinalAmount_(params, n)
        yearlyBreakdown == BreakdownLoop_(tz, params, n, LoopFirstYear, <<>>)
    IN  IF yearlyBreakdown.threw THEN yearlyBreakdown
        ELSE [finalAmount |-> finalAmount,
              totalInterest |-> finalAmount,
              yearlyBreakdown |-> yearlyBreakdown.value,
              formula |-> getFormula(params.frequency)]

\* The result, or the exception the loop raised.  tz is the time zone of the
\* process, in which the dates are computed.
calculateCompoundInterest(tz, params) ==
    LET n == getFrequencyValue(params.frequency)
        finalAmount == FinalAmount_(params, n)
        yearlyBreakdown == BreakdownLoop_(tz, params, n, LoopFirstYear, <<>>)
    IN  IF yearlyBreakdown.threw THEN yearlyBreakdown
        ELSE [finalAmount |-> finalAmount,
              totalInterest |-> Sub(finalAmount, Lit(params.principal)),
              yearlyBreakdown |-> yearlyBreakdown.value,
              formula |-> getFormula(params.frequency)]

\* a call of the engine that raised an exception
EngineThrew(out) == "threw" \in DOMAIN out

\* the numbers of a result
ResultNumbers(result) ==
    {result.finalAmount, result.totalInterest}
        \cup {result.yearlyBreakdown[i].amount : i \in DOMAIN result.yearlyBreakdown}
        \cup {result.yearlyBreakdown[i].interestEarned : i \in DOMAIN result.yearlyBreakdown}

\* the ways of giving every number one of its kinds
Choices(kinds) ==
    LET open == {v \in DOMAIN kinds : Cardinality(kinds[v]) > 1}
        pick == {h \in [open -> {"NaN", "-Infinity", "Infinity", "finite"}] :
                   \A v \in open : h[v] \in kinds[v]}
    IN  {[v \in DOMAIN kinds |-> IF v \in open THEN g[v] ELSE CHOOSE k \in kinds[v] : TRUE] :
           g \in pick}

\* what is known of an operand when the amounts have the kinds `given`: an
\* amount is of its kind, and within its bounds when that is finite
Operand(x, given, fine) ==
    LET m == Known_(x, fine)
    IN  IF ~IsPlain(x) /\ x \in DOMAIN given
        THEN Magnitude(given[x] = "NaN", given[x] = "-Infinity", given[x] = "Infinity",
                       given[x] = "finite", m.lo, m.hi)
        ELSE m

\* The kinds a number of a result may be of when its amounts have the kinds
\* `given`: an amount has its kind, and a difference (lines 91 and 106-107)
\* the kinds of the difference of its operands, so that Infinity - Infinity
\* is NaN and Infinity less a finite number is Infinity.
KindsGiven(v, given) ==
    IF IsPlain(v) THEN {"finite"}
    ELSE IF v \in DOMAIN given THEN {given[v]}
    ELSE IF v.op # "-" THEN Kinds_(v)
    ELSE CHOOSE kinds \in
           {IF Cardinality(glance) = 1 THEN glance
            ELSE KindsIn(Sum_(Operand(v.a, given, TRUE), Negated(Operand(v.b, given, TRUE)))) :
              glance \in {KindsIn(Sum_(Operand(v.a, given, FALSE),
                                       Negated(Operand(v.b, given, FALSE))))}} : TRUE

\* the number with its kind
SettledNumber(v, kinds) ==
    IF IsPlain(v) THEN v
    ELSE [f \in DOMAIN v \cup {"kind"} |-> IF f # "kind" THEN v[f] ELSE kinds[v]]

SettledResult(result, kinds) ==
    [result EXCEPT !.finalAmount = SettledNumber(@, kinds),
                   !.totalInterest = SettledNumber(@, kinds),
                   !.yearlyBreakdown =
                       [i \in DOMAIN @ |->
                           [@[i] EXCEPT !.amount = SettledNumber(@, kinds),
                                        !.interestEarned = SettledNumber(@, kinds)]]]

\* What a call of the engine returns: the exception, or the result with the
\* kind of each of its numbers.  Where the bounds leave open whether an
\* amount is finite, the result with it finite and the result with it not
\* are both results of the call, each with the differences that its amounts
\* give.
Settlings(result) ==
    IF EngineThrew(result) THEN {result}
    ELSE UNION {{SettledResult(result, kinds) :
                   kinds \in Choices([v \in ResultNumbers(result) |-> KindsGiven(v, given)])} :
                  given \in Choices([v \in {result.finalAmount}
                                            \cup {result.yearlyBreakdown[i].amount :
                                                     i \in DOMAIN result.yearlyBreakdown} |->
                                        Kinds_(v)])}

---------------------------------------------------------------------------
(* JSON and localStorage *)

\* a text that is no JSON, and the empty text, which is no JSON either
CorruptText == [type |-> "text", valid |-> FALSE, empty |-> FALSE]
EmptyText == [type |-> "text", valid |-> FALSE, empty |-> TRUE]

\* the JSON text of an array, held as the value JSON.parse reads from it
JSONText(v) == [type |-> "text", valid |-> TRUE, empty |-> FALSE, array |-> TRUE, value |-> v]

\* a JSON text that holds no array: '{}'
ObjectValue == [type |-> "object"]
ObjectText ==
    [type |-> "text", valid |-> TRUE, empty |-> FALSE, array |-> FALSE, value |-> ObjectValue]

\* JSON.stringify of a number: Infinity and NaN are written as null; what
\* JSON.parse read is written as it is
NumberToJSON(v) == IF v.type = "number" /\ ~IsFinite(v) THEN Null ELSE v

\* JSON.stringify of a breakdown row: a property that is undefined is left out
RowToJSON(row) ==
    IF "date" \in DOMAIN row /\ row.date.type = "undefined"
    THEN [year |-> row.year, amount |-> NumberToJSON(row.amount),
          interestEarned |-> NumberToJSON(row.interestEarned)]
    ELSE [row EXCEPT !.amount = NumberToJSON(@), !.interestEarned = NumberToJSON(@)]

\* JSON.stringify of a Date is its toISOString(), and null for an Invalid
\* Date
DateToJSON(v) ==
    IF IsInvalidDate(v) THEN Null
    ELSE IF v.type = "Date" THEN toISOString(v).value
    ELSE v

ItemToJSON(item) ==
    [item EXCEPT !.startDate = DateToJSON(@),
                 !.finalAmount = NumberToJSON(@),
                 !.totalInterest = NumberToJSON(@),
                 !.yearlyBreakdown = [i \in DOMAIN @ |-> RowToJSON(@[i])]]

JSONstringify(history) == JSONText([i \in DOMAIN history |-> ItemToJSON(history[i])])

\* the operator of that name, applied to the arguments x
Call(name, a, b, c, d, e) ==
    CASE name = "Plus" -> Plus(a, b, c)
      [] name = "Times" -> Times(a, b, c)
      [] name = "Over" -> Over(a, b, c)
      [] name = "LongDivision" -> LongDivision(a, b, c)
      [] name = "FineTimes" -> FineTimes(a, b, c)
      [] name = "FinePlus" -> FinePlus(a, b, c)
      [] name = "FineRatio" -> FineRatio(a, b)
      [] name = "Raised" -> Raised(a, b, c, d, e)
      [] name = "Ratio" -> Ratio(a, b)
      [] name = "Rounded" -> Rounded(a, b)
      [] name = "Series" -> Series(a, b, c)
      [] name = "Exponential" -> Exponential(a, b)
      [] name = "SquareRoot" -> SquareRoot(a, b)
      [] name = "WholeRoot" -> WholeRoot(a, b, c)
      [] name = "Widened" -> Widened(a, b, c)
      [] name = "FractionOf" -> FractionOf(a)
      [] name = "ErrorOf" -> ErrorOf(a)
      [] name = "PowerBounds" -> PowerBounds(a, b, c)
      [] name = "PowDouble" -> PowDouble(a, b)
      [] name = "ExpDouble" -> ExpDouble(a)
      [] name = "PlainDouble" -> PlainDouble(a)
      [] name = "PowGlance" -> PowGlance(a, b)
      [] name = "ExpGlance" -> ExpGlance(a)
      [] name = "Glance" -> Glance(a, b)
      [] name = "Sum" -> Sum(a, b)
      [] name = "Multiplied" -> Multiplied(a, b)
      [] name = "Inverse" -> Inverse(a)
      [] name = "Known" -> Known(a, b)
      [] name = "Kinds" -> Kinds(a)
      [] name = "Apart" -> Apart(a)
      [] name = "OffsetAt" -> OffsetAt(a, b)
      [] name = "UTCOfLocal" -> UTCOfLocal(a, b)
      [] name = "LocalTime" -> LocalTime(a, b)
      [] name = "CivilFromDays" -> CivilFromDays(a)
      [] name = "DaysFromCivil" -> DaysFromCivil(a, b, c)
      [] name = "getFullYear" -> getFullYear(a, b)
      [] name = "setFullYear" -> setFullYear(a, b, c)
      [] name = "calculateCompoundInterest" -> calculateCompoundInterest(a, b)
      [] name = "Settlings" -> Settlings(a)
      [] name = "JSONstringify" -> JSONstringify(a)
      [] name = "Product" -> Product(a, b)
      [] name = "Digit" -> Digit(a, b, c, d)
      [] name = "Transitions" -> Transitions(a)
      [] name = "SummerStart" -> SummerStart(a, b)
      [] name = "SummerEnd" -> SummerEnd(a, b)
      [] name = "BreakdownLoop" -> BreakdownLoop(a, b, c, d, e)
      [] name = "BreakdownRow" -> BreakdownRow(a, b, c, d, e)
      [] name = "YearDate" -> YearDate(a, b, c)
      [] name = "YearAmount" -> YearAmount(a, b, c)
      [] name = "FinalAmount" -> FinalAmount(a, b)
      [] name = "Scale" -> Scale(a, b, c)
      [] name = "Compare" -> Compare(a, b)
      [] name = "Power" -> Power(a, b, c)
      [] name = "DateOfInstant" -> DateOfInstant(a)


JSONparse(text) == IF text.valid THEN Ok(text.value) ELSE Threw("SyntaxError")

\* localStorage.setItem('calculationHistory', text): the new item, or the
\* QuotaExceededError of a text that does not fit
setItem(text) ==
    IF Len(text.value) > quota THEN Threw("QuotaExceededError") ELSE Ok(text)

---------------------------------------------------------------------------
(* The history store *)

RandomValues == {0, 1}

\* Date.now().toString(36) + Math.random().toString(36).substring(2)
generateId(t, random) == <<t, random>>

\* line 155, the test of `history ? ... : []`: null and '' are falsy
Falsy(store) == store.type = "null" \/ store.empty

getCalculationHistory(store) ==
    IF Falsy(store) THEN Ok(<<>>) ELSE JSONparse(store)

\* what getCalculationHistory returned is an array, so that it has unshift
\* and filter
ReadsArray(store) == Falsy(store) \/ store.array

\* mutant: the new record is pushed at the end
UnshiftAtEnd(history, historyItem) == Append(history, historyItem)

Unshift(history, historyItem) == <<historyItem>> \o history

\* mutant: the start date is not carried into the record
HistoryItemWithoutStartDate(params, result, t, random, serial) ==
    [principal |-> params.principal,
     rate |-> params.rate,
     time |-> params.time,
     frequency |-> params.frequency,
     startDate |-> Null,
     finalAmount |-> result.finalAmount,
     totalInterest |-> result.totalInterest,
     yearlyBreakdown |-> result.yearlyBreakdown,
     formula |-> result.formula,
     id |-> generateId(t, random),
     createdAt |-> toISOString(DateAt(t)).value,
     serial |-> serial]

\* lines 139-144: { ...params, ...result, id, createdAt }; serial is a history
\* field (the number of the save), not a field of the code
HistoryItem(params, result, t, random, serial) ==
    [principal |-> params.principal,
     rate |-> params.rate,
     time |-> params.time,
     frequency |-> params.frequency,
     startDate |-> params.startDate,
     finalAmount |-> result.finalAmount,
     totalInterest |-> result.totalInterest,
     yearlyBreakdown |-> result.yearlyBreakdown,
     formula |-> result.formula,
     id |-> generateId(t, random),
     createdAt |-> toISOString(DateAt(t)).value,
     serial |-> serial]

saveCalculation(store, params, result, t, random, serial) ==
    LET historyItem == HistoryItem(params, result, t, random, serial)
        read == getCalculationHistory(store)
    IN  IF read.threw THEN read
        ELSE IF ~ReadsArray(store) THEN Threw("TypeError")
        ELSE setItem(JSONstringify_(Unshift(read.value, historyItem)))

KeepItem(item, id) == item.id # id

deleteCalculation(store, id) ==
    LET read == getCalculationHistory(store)
    IN  IF read.threw THEN read
        ELSE IF ~ReadsArray(store) THEN Threw("TypeError")
        ELSE setItem(JSONstringify_(SelectSeq(read.value, LAMBDA item : KeepItem(item, id))))

\* mutant: the collection is read before it is replaced
clearAfterRead ==
    LET read == getCalculationHistory(storage)
    IN  IF read.threw THEN read ELSE setItem(JSONstringify_(<<>>))

clearCalculationHistory == setItem(JSONstringify_(<<>>))

\* what the item is: missing, empty, a text that is no JSON, or a JSON text
\* of an array or of something else
Kind(store) ==
    IF store.type = "null" THEN "missing"
    ELSE IF store.empty THEN "empty"
    ELSE IF ~store.valid THEN "corrupt"
    ELSE IF store.array THEN "json" ELSE "object"

\* the item after a call that wrote it or threw
After(store, outcome) == IF outcome.threw THEN store ELSE outcome.value

---------------------------------------------------------------------------
(* Inputs *)

\* the time zone the store and the form are run in
HomeZone == "Asia/Manila"

\* a frequency that is none of the seven
UnknownFrequency == "bogus"

TimeInputs == {Num(k) : k \in 0 .. MaxTime} \cup {Num(MaxTime) - 1}

Dates ==
    {Null, InvalidDate, DateObject(2023, 12, 31), DateObject(2024, 3, 10),
     DateTime(2024, 2, 29, 84600)}

\* The params of the calls: every combination of a few values of each field,
\* and two params whose amount of the first year is so near the largest
\* double that the bounds leave open whether it is finite, the amount of the
\* second year being Infinity.
EngineInputs ==
    [principal : {0, Num(1) + 1},
     rate : {0, Num(5), Num(33292)},
     time : TimeInputs,
     frequency : Frequencies \cup {UnknownFrequency},
     startDate : Dates]
        \cup {[principal |-> Num(380671176) + 1, rate |-> Num(205223), time |-> Num(2),
                frequency |-> "daily", startDate |-> Null],
               [principal |-> Num(386527237), rate |-> Num(69001), time |-> Num(2),
                frequency |-> "continuously", startDate |-> Null]}

\* the params of the saves: params with a start date whose amounts grow
\* past the largest double in the third year, and params whose start date
\* is an Invalid Date (the engine returns for them when the time is 0, and
\* throws when it is 1 or more)
StoreParams ==
    {[principal |-> Num(1), rate |-> Num(33292), time |-> Num(3),
      frequency |-> "daily", startDate |-> DateObject(2024, 2, 29)],
     [principal |-> Num(1), rate |-> Num(5), time |-> 0,
      frequency |-> "annually", startDate |-> InvalidDate]}

\* the calls of save: the params and the result the engine returns for them
StoreCalls ==
    UNION {{<<p, result>> : result \in Settlings_(calculateCompoundInterest_(HomeZone, p))} :
             p \in StoreParams}

Ids == {generateId(t, random) : t \in 0 .. MaxClock, random \in RandomValues}

---------------------------------------------------------------------------
(* The form (calculator-form.tsx) *)

DefaultParams ==
    [principal |-> Num(10000), rate |-> Num(5), time |-> Num(10),
     frequency |-> "annually", startDate |-> Null]

\* parseFloat on the texts the model types into the inputs
parseFloat(value) ==
    CASE value = "10000" -> Lit(Num(10000))
      [] value = "10" -> Lit(Num(10))
      [] value = "5" -> Lit(Num(5))
      [] value = "2.5" -> Lit(Num(2) + 1)
      [] value = "0" -> Lit(0)
      [] value = "-1" -> Lit(0 - Num(1))
      [] OTHER -> NaN

\* x || 0 for a number x
OrZero(x) == IF x.op = "NaN" THEN 0 ELSE x.x

\* new Date(value) for the value of the date input: midnight in UTC of a
\* date YYYY-MM-DD, a day past the end of February counting on into March,
\* and an Invalid Date for the empty text
DateOfInput(value) ==
    CASE value = "2023-12-31" -> DateObject(2023, 12, 31)
      [] value = "2024-02-29" -> DateObject(2024, 2, 29)
      [] value = "2025-01-01" -> DateObject(2025, 1, 1)
      [] value = "2024-02-30" -> DateObject(2024, 3, 1)
      [] OTHER -> InvalidDate

\* line 196, the value of the date input: toISOString throws a RangeError
\* when the start date is an Invalid Date, and the tree unmounts
RenderThrows(params, checked) == checked /\ IsInvalidDate(params.startDate)

handleChange(prev, name, value) ==
    [prev EXCEPT ![name] = IF name = "startDate" THEN DateOfInput(value)
                           ELSE OrZero(parseFloat(value))]

handleFrequencyChange(prev, value) == [prev EXCEPT !.frequency = value]

\* lines 36-48: the effect of includeDate
includeDateEffect(prev, checked, t) ==
    [prev EXCEPT !.startDate = IF checked THEN DateAt(t) ELSE Null]

\* the JSON text of an object that holds params
ParamsText(v) ==
    [type |-> "text", valid |-> TRUE, empty |-> FALSE, array |-> FALSE, value |-> v]

\* lines 31-33: the item 'calculatorParams' the form writes for its params
formItem(params) == ParamsText([params EXCEPT !.startDate = DateToJSON(@)])

\* lines 16-26: the initial params, read from the item 'calculatorParams'
initialParams(item) == IF Falsy(item) THEN Ok(DefaultParams) ELSE JSONparse(item)

\* lines 16-48: the form mounts with the params of the item and includeDate
\* false, whose effect runs; an item that is no JSON makes the mount throw
formMount(item) ==
    LET initial == initialParams(item)
    IN  IF initial.threw THEN initial
        ELSE Ok(includeDateEffect(initial.value, FALSE, 0))

\* mutant: a principal of 0 passes the check
InvalidPrincipalNegativeOnly(p) == p.principal < 0

InvalidPrincipal(p) == p.principal <= 0

InvalidRate(p) == p.rate <= 0

\* mutant: the time is not checked to be whole
InvalidTimeSignOnly(p) == p.time <= 0

InvalidTime(p) == p.time <= 0 \/ ~IsInteger(p.time)

\* lines 70-96: the toast of the first check that fails, "" when none does
validationToast(p) ==
    IF InvalidPrincipal(p) THEN "Invalid Principal"
    ELSE IF InvalidRate(p) THEN "Invalid Interest Rate"
    ELSE IF InvalidTime(p) THEN "Invalid Time Period"
    ELSE ""

\* lines 71-89: the params that pass the checks of handleSubmit; the
\* frequency is not checked, it is the default or a value of the select
ValidParams(params) ==
    ~InvalidPrincipal(params) /\ ~InvalidRate(params) /\ ~InvalidTime(params)

\* what the model types into the inputs
ChangeEvents ==
    {<<"principal", "">>, <<"principal", "10000">>, <<"rate", "-1">>,
     <<"time", "0">>, <<"time", "10">>,
     <<"startDate", "2023-12-31">>, <<"startDate", "">>}

\* the items 'calculatorParams' the form is first mounted with: none, a
\* text that is no JSON, and items the form of an earlier session wrote
\* (line 32), for params that do not pass the checks and for params that do
FormItems ==
    {Null, CorruptText,
     ParamsText([principal |-> 0, rate |-> Num(5), time |-> Num(2) + 1,
                 frequency |-> "monthly",
                 startDate |-> DateTimeString(2023, 12, 31, 0)]),
     ParamsText([principal |-> Num(10000), rate |-> Num(5), time |-> Num(10),
                 frequency |-> "weekly", startDate |-> Null])}

\* the frequencies the model selects in the form
FormFrequencies == {"continuously"}

\* the values Math.random() takes in the submits of the form
FormRandomValues == {0}

---------------------------------------------------------------------------
(* State *)

storeVars == <<storage, quota, zone, now, saves, issued>>
engineVars == <<engineIn, engineOut>>
formVars == <<formParams, includeDate>>
viewVars == <<historyState, selectedItem>>

NoView ==
    /\ includeDate = FALSE
    /\ calculationParams = Null
    /\ historyState = <<>>
    /\ selectedItem = Null
    /\ toast = ""

NoUI ==
    /\ tab = "calculator"
    /\ formParams = DefaultParams
    /\ NoView

NoStore ==
    /\ now = 0
    /\ saves = 0
    /\ issued = {}
    /\ last = [op |-> "init"]

---------------------------------------------------------------------------
(* The engine on its own *)

EngineInit ==
    /\ engineIn \in EngineInputs
    /\ engineOut = Null
    /\ storage = Null
    /\ quota = StorageQuota
    /\ zone \in Zones
    /\ NoStore
    /\ NoUI

Compute ==
    /\ engineOut = Null
    /\ engineOut' \in Settlings_(calculateCompoundInterest_(zone, engineIn))
    /\ UNCHANGED <<engineIn, storeVars, last, tab, formVars, calculationParams, viewVars, toast>>

NextInput ==
    /\ engineOut # Null
    /\ engineIn' \in EngineInputs
    /\ engineOut' = Null
    /\ UNCHANGED <<storeVars, last, tab, formVars, calculationParams, viewVars, toast>>

EngineNext == Compute \/ NextInput

EngineSpec == EngineInit /\ [][EngineNext]_vars

---------------------------------------------------------------------------
(* The operations on the store *)

Tick ==
    /\ now < MaxClock
    /\ now' = now + 1
    /\ UNCHANGED <<storage, quota, zone, saves, issued, last, engineVars, tab, formVars,
                   calculationParams, viewVars, toast>>

Save ==
    /\ saves < MaxSaves
    /\ \E c \in StoreCalls, random \in RandomValues :
          \E outcome \in {saveCalculation(storage, c[1], c[2], now, random, saves + 1)} :
              /\ storage' = After(storage, outcome)
              /\ last' = [op |-> "save", params |-> c[1],
                          result |-> c[2], id |-> generateId(now, random),
                          fresh |-> generateId(now, random) \notin issued,
                          threw |-> outcome.threw]
              /\ issued' = IF outcome.threw THEN issued
                           ELSE issued \cup {generateId(now, random)}
    /\ saves' = saves + 1
    /\ UNCHANGED <<quota, zone, now, engineVars, tab, formVars, calculationParams, viewVars, toast>>

List ==
    /\ last' = [op |-> "list",
                threw |-> getCalculationHistory(storage).threw]
    /\ UNCHANGED <<storeVars, engineVars, tab, formVars, calculationParams, viewVars, toast>>

Delete ==
    /\ \E id \in Ids :
          \E outcome \in {deleteCalculation(storage, id)} :
              /\ storage' = After(storage, outcome)
              /\ last' = [op |-> "delete", id |-> id,
                          threw |-> outcome.threw]
    /\ UNCHANGED <<quota, zone, now, saves, issued, engineVars, tab, formVars, calculationParams,
                   viewVars, toast>>

Clear ==
    /\ storage' = After(storage, clearCalculationHistory)
    /\ last' = [op |-> "clear",
                threw |-> clearCalculationHistory.threw, from |-> Kind(storage)]
    /\ UNCHANGED <<quota, zone, now, saves, issued, engineVars, tab, formVars, calculationParams,
                   viewVars, toast>>

---------------------------------------------------------------------------
(* The handlers of the history view (calculation-history.tsx) *)

\* lines 29-32, after the item became `store`: the state of the view, or
\* the exception of a list() that throws
loadHistory(store) == getCalculationHistory(store)

\* line 47
handleClearAllWrite == setItem(JSONstringify_(<<>>))

\* lines 46-54
handleClearAll ==
    LET written == After(storage, handleClearAllWrite)
    IN  /\ storage' = written
        /\ historyState' = loadHistory(written).value
        /\ selectedItem' = Null
        /\ toast' = "History cleared"
        /\ last' = [op |-> "clearAll",
                    threw |-> handleClearAllWrite.threw, from |-> Kind(storage)]
        /\ UNCHANGED <<quota, zone, now, saves, issued, engineVars, tab, formVars, calculationParams>>

\* lines 34-44
handleDelete(id) ==
    LET outcome == deleteCalculation(storage, id)
        written == After(storage, outcome)
    IN  /\ ~outcome.threw
        /\ storage' = written
        /\ historyState' = loadHistory(written).value
        /\ selectedItem' = IF selectedItem.type # "null" /\ selectedItem.item.id = id
                           THEN Null ELSE selectedItem
        /\ toast' = "Calculation deleted"
        /\ last' = [op |-> "handleDelete", id |-> id, threw |-> FALSE]
        /\ UNCHANGED <<quota, zone, now, saves, issued, engineVars, tab, formVars, calculationParams>>

\* lines 60-69, with handleCalculate of Index.tsx (lines 12-14)
handleItemClick(item) ==
    /\ selectedItem' = [type |-> "item", item |-> item]
    /\ calculationParams' =
          [principal |-> item.principal,
           rate |-> item.rate,
           time |-> item.time,
           frequency |-> item.frequency,
           startDate |-> IF Truthy(item.startDate) THEN NewDate(item.startDate) ELSE Null]
    /\ last' = [op |-> "select"]
    /\ toast' = ""
    /\ UNCHANGED <<storeVars, engineVars, tab, formVars, historyState>>

---------------------------------------------------------------------------
(* The store on its own: its operations, and the clear-all of the view,
   called in any order *)

StoreInit ==
    /\ storage \in {Null, EmptyText, CorruptText, ObjectText}
    /\ quota = StorageQuota
    /\ zone = HomeZone
    /\ NoStore
    /\ NoUI
    /\ engineIn = Null
    /\ engineOut = Null

StoreNext == Tick \/ Save \/ List \/ Delete \/ Clear

StoreSpec == StoreInit /\ [][StoreNext]_vars

---------------------------------------------------------------------------
(* The application as its user drives it (Index.tsx) *)

UIInit ==
    /\ storage \in {Null, CorruptText, ObjectText}
    /\ quota = FormQuota
    /\ zone = HomeZone
    /\ NoStore
    /\ \E item \in FormItems :
          LET mounted == formMount(item)
          IN  /\ tab = IF mounted.threw THEN "crashed" ELSE "calculator"
              /\ formParams = IF mounted.threw THEN Null ELSE mounted.value
    /\ NoView
    /\ engineIn = Null
    /\ engineOut = Null

\* an input of the form is edited; the date input is there while
\* includeDate is checked
Change ==
    /\ tab = "calculator"
    /\ \E e \in ChangeEvents :
          /\ e[1] = "startDate" => includeDate
          /\ formParams' = handleChange(formParams, e[1], e[2])
    /\ tab' = IF RenderThrows(formParams', includeDate) THEN "crashed" ELSE tab
    /\ last' = [op |-> "change"]
    /\ toast' = ""
    /\ UNCHANGED <<storeVars, engineVars, includeDate, calculationParams, viewVars>>

ChangeFrequency ==
    /\ tab = "calculator"
    /\ \E value \in FormFrequencies : formParams' = handleFrequencyChange(formParams, value)
    /\ last' = [op |-> "change"]
    /\ toast' = ""
    /\ UNCHANGED <<storeVars, engineVars, tab, includeDate, calculationParams, viewVars>>

ToggleIncludeDate ==
    /\ tab = "calculator"
    /\ includeDate' = ~includeDate
    /\ formParams' = includeDateEffect(formParams, ~includeDate, now)
    /\ last' = [op |-> "change"]
    /\ toast' = ""
    /\ UNCHANGED <<storeVars, engineVars, tab, calculationParams, viewVars>>

\* lines 67-96: a check fails, its toast is shown, the handler returns
SubmitInvalid ==
    /\ tab = "calculator"
    /\ ~ValidParams(formParams)
    /\ toast' = validationToast(formParams)
    /\ last' = [op |-> "submit", params |-> formParams,
                engine |-> <<>>, threw |-> FALSE, error |-> "",
                toasts |-> <<validationToast(formParams)>>]
    /\ UNCHANGED <<storeVars, engineVars, tab, formVars, calculationParams, viewVars>>

\* lines 98-105: the engine, the save, onCalculate and the toast; an
\* exception of the engine or of the save ends the handler where it is raised
SubmitValid ==
    /\ tab = "calculator"
    /\ ValidParams(formParams)
    /\ saves < MaxSubmits
    /\ \E random \in FormRandomValues,
          result \in Settlings_(calculateCompoundInterest_(zone, formParams)) :
          LET outcome ==
                  IF EngineThrew(result) THEN result
                  ELSE saveCalculation(storage, formParams, result, now, random, saves + 1)
          IN  /\ storage' = After(storage, outcome)
              /\ issued' = IF outcome.threw THEN issued
                           ELSE issued \cup {generateId(now, random)}
              /\ calculationParams' = IF outcome.threw THEN calculationParams ELSE formParams
              /\ toast' = IF outcome.threw THEN "" ELSE "Calculation Complete"
              /\ last' = [op |-> "submit", params |-> formParams,
                          engine |-> <<formParams>>, threw |-> outcome.threw,
                          error |-> IF outcome.threw THEN outcome.error ELSE "",
                          toasts |-> IF outcome.threw THEN <<>> ELSE <<"Calculation Complete">>]
    /\ saves' = saves + 1
    /\ UNCHANGED <<quota, zone, now, engineVars, tab, formVars, viewVars>>

\* the history tab is chosen: the form unmounts, the view mounts and loads;
\* a list() that throws, or a history that has no map, unmounts the tree
OpenHistory ==
    /\ tab = "calculator"
    /\ LET loaded == loadHistory(storage)
           crashes == loaded.threw \/ ~ReadsArray(storage)
       IN  /\ tab' = IF crashes THEN "crashed" ELSE "history"
           /\ historyState' = IF crashes THEN <<>> ELSE loaded.value
    /\ selectedItem' = Null
    /\ last' = [op |-> "tab"]
    /\ toast' = ""
    /\ UNCHANGED <<storeVars, engineVars, formVars, calculationParams>>

\* the calculator tab is chosen: the view unmounts, the form mounts
OpenCalculator ==
    /\ tab = "history"
    /\ tab' = "calculator"
    /\ formParams' = formMount(formItem(formParams)).value
    /\ includeDate' = FALSE
    /\ historyState' = <<>>
    /\ selectedItem' = Null
    /\ last' = [op |-> "tab"]
    /\ toast' = ""
    /\ UNCHANGED <<storeVars, engineVars, calculationParams>>

ClickDelete ==
    /\ tab = "history"
    /\ \E i \in DOMAIN historyState : handleDelete(historyState[i].id)

\* the button is disabled while the view shows no record
ClickClearAll ==
    /\ tab = "history"
    /\ Len(historyState) # 0
    /\ handleClearAll

ClickItem ==
    /\ tab = "history"
    /\ \E i \in DOMAIN historyState : handleItemClick(historyState[i])

UINext ==
    \/ Change \/ ChangeFrequency \/ ToggleIncludeDate
    \/ SubmitInvalid \/ SubmitValid
    \/ OpenHistory \/ OpenCalculator
    \/ ClickDelete \/ ClickClearAll \/ ClickItem

UISpec == UIInit /\ [][UINext]_vars

---------------------------------------------------------------------------
(* What the claims read *)

\* list() in a state, and the sequence it returns
ListOf(store) == getCalculationHistory(store)
Collection(store) == ListOf(store).value

\* an item list() reads a sequence from
IsCollection(store) == Falsy(store) \/ (store.valid /\ store.array)

\* reading the date of a row, undefined when the row has none
ReadDate(row) == IF "date" \in DOMAIN row THEN row.date ELSE Undefined

SameRow(a, b) ==
    /\ a.year = b.year
    /\ a.amount = b.amount
    /\ a.interestEarned = b.interestEarned
    /\ ReadDate(a) = ReadDate(b)

\* a number as JSON holds it: null when it is Infinity or NaN
Stored(v) == IF IsFinite(v) THEN v ELSE Null

StoredRow(a, b) ==
    /\ a.year = b.year
    /\ a.amount = Stored(b.amount)
    /\ a.interestEarned = Stored(b.interestEarned)
    /\ ReadDate(a) = ReadDate(b)

CarriesStoredResult(item, result) ==
    /\ item.finalAmount = Stored(result.finalAmount)
    /\ item.totalInterest = Stored(result.totalInterest)
    /\ item.formula = result.formula
    /\ Len(item.yearlyBreakdown) = Len(result.yearlyBreakdown)
    /\ \A i \in DOMAIN item.yearlyBreakdown :
          StoredRow(item.yearlyBreakdown[i], result.yearlyBreakdown[i])

CarriesResult(item, result) ==
    /\ item.finalAmount = result.finalAmount
    /\ item.totalInterest = result.totalInterest
    /\ item.formula = result.formula
    /\ Len(item.yearlyBreakdown) = Len(result.yearlyBreakdown)
    /\ \A i \in DOMAIN item.yearlyBreakdown :
          SameRow(item.yearlyBreakdown[i], result.yearlyBreakdown[i])

CarriesNumbers(item, params) ==
    /\ item.principal = params.principal
    /\ item.rate = params.rate
    /\ item.time = params.time
    /\ item.frequency = params.frequency

Positions(history, id) == {i \in DOMAIN history : history[i].id = id}

\* the sequence without its i-th element
Without(history, i) ==
    [k \in 1 .. Len(history) - 1 |-> IF k < i THEN history[k] ELSE history[k + 1]]

---------------------------------------------------------------------------
(* The claims about the store, under StoreSpec *)

\* a step that is the operation `op`: every operation records itself in
\* last, and only the tick of the clock leaves last as it was
Step(op) == last'.op = op /\ now' = now

\* C1 as stated: a save(p, r) that returns leaves a collection whose first
\* element has the fields of p and of r, unchanged, and whose other elements
\* are the previous collection in its order.
C1_FirstCarriesExactly ==
    [][(Step("save") /\ ~last'.threw) =>
          LET l == Collection(storage')
          IN  /\ Len(l) >= 1
              /\ CarriesNumbers(Head(l), last'.params)
              /\ Head(l).startDate = last'.params.startDate
              /\ CarriesResult(Head(l), last'.result)
              /\ Tail(l) = Collection(storage)]_vars

\* the start date of params as JSON holds it: the ISO string of a Date, null
\* for an Invalid Date
StoredDate(v) ==
    IF v.type # "Date" THEN v
    ELSE IF IsInvalidDate(v) THEN Null
    ELSE toISOString(v).value

\* C1 amended: a save(p, r) that returns leaves a collection whose first
\* element has the fields of p and of r as JSON holds them (a startDate that
\* is a Date is its ISO string, or null when it is an Invalid Date; a number
\* that is Infinity or NaN is null), and whose other elements are the
\* previous collection in its order.
C1_FirstCarriesJSON ==
    [][(Step("save") /\ ~last'.threw) =>
          LET l == Collection(storage')
          IN  /\ Len(l) >= 1
              /\ CarriesNumbers(Head(l), last'.params)
              /\ Head(l).startDate = StoredDate(last'.params.startDate)
              /\ CarriesStoredResult(Head(l), last'.result)
              /\ Tail(l) = Collection(storage)]_vars

\* a save of params with an Invalid Date, on a collection of two records
\* with a start date, finite amounts in the first two years and Infinity in
\* the third
C1_Witness ==
    /\ last.op = "save"
    /\ ~last.threw
    /\ IsInvalidDate(last.params.startDate)
    /\ IsFinite(last.result.finalAmount)
    /\ Len(Collection(storage)) = 3
    /\ Head(Collection(storage)).startDate = Null
    /\ Head(Collection(storage)).finalAmount = last.result.finalAmount
    /\ Head(Collection(storage)).serial = 3
    /\ \A i \in 2 .. 3 :
          LET record == Collection(storage)[i]
          IN  /\ record.serial = 4 - i
              /\ record.startDate = DateTimeString(2024, 2, 29, 0)
              /\ record.finalAmount = Null
              /\ IsFinite(record.yearlyBreakdown[1].amount)
              /\ IsFinite(record.yearlyBreakdown[2].interestEarned)
              /\ record.yearlyBreakdown[3].amount = Null
              /\ record.yearlyBreakdown[3].interestEarned = Null

\* C2: the id a save gives its record differs from every id given by an
\* earlier save, whatever was deleted or cleared in between.
C2_IdsNeverReused ==
    (last.op = "save" /\ ~last.threw) => last.fresh

\* C3: on a collection, deleteById(id) removes exactly the one record with
\* that id and keeps the others in order; with no such record the collection
\* is unchanged and nothing is raised; a second deleteById(id) changes nothing.
C3_DeleteRemovesExactlyOne ==
    [][(Step("delete") /\ IsCollection(storage)) =>
          LET prev == Collection(storage)
              hits == Positions(prev, last'.id)
          IN  /\ ~last'.threw
              /\ IF hits = {}
                 THEN Collection(storage') = prev
                 ELSE \E i \in hits : Collection(storage') = Without(prev, i)
              /\ After(storage', deleteCalculation(storage', last'.id)) = storage']_vars

\* C4: with no item stored, or an unparsable one, list() returns the empty
\* sequence and raises nothing.
C4_ListNeverFails ==
    (storage.type = "null" \/ ~storage.valid) => ListOf(storage) = Ok(<<>>)

\* C5: from any state of the item, also missing or unparsable, clear()
\* returns, leaves the empty sequence stored, and list() then returns the
\* empty sequence; the write of the history view's clear-all leaves the item,
\* in every state, as clear() does.
C5_ClearEmpties ==
    /\ After(storage, handleClearAllWrite) = After(storage, clearCalculationHistory)
    /\ last.op = "clear" =>
           /\ ~last.threw
           /\ storage = JSONText(<<>>)
           /\ ListOf(storage) = Ok(<<>>)

C5_Witness ==
    /\ last.op = "clear"
    /\ last.from = "corrupt"
    /\ ListOf(storage) = Ok(<<>>)

\* C6: the sequence list() returns is ordered most recently saved first: of
\* two records the one saved later stands at the smaller index.
C6_MostRecentFirst ==
    IsCollection(storage) =>
        LET l == Collection(storage)
        IN  \A i, j \in DOMAIN l : i < j => l[i].serial > l[j].serial

C6_Witness ==
    /\ IsCollection(storage)
    /\ saves = MaxSaves
    /\ Len(Collection(storage)) = 2
    /\ last.op = "save"
    /\ ~last.threw

---------------------------------------------------------------------------
(* The claims about the engine, under EngineSpec *)

Computed == engineOut # Null

\* the expression of a number, without the kind the result carries
RECURSIVE Term(_)
Term(v) ==
    IF v.op = "lit" \/ v.op = "NaN" THEN v
    ELSE [f \in DOMAIN v \ {"kind"} |-> IF f \in {"a", "b"} THEN Term(v[f]) ELSE v[f]]

\* the preconditions the contract gives the engine: the numbers are
\* positive, the time is whole, the frequency is one of the seven and the
\* start date, where there is one, is a date
Preconditions(params) ==
    /\ params.principal > 0
    /\ params.rate > 0
    /\ params.time > 0
    /\ IsInteger(params.time)
    /\ params.frequency \in Frequencies
    /\ ~IsInvalidDate(params.startDate)

\* C9: for valid params the breakdown has exactly `time` rows and the row at
\* index i (from 0) has year i + 1.
C9_BreakdownYears ==
    (Computed /\ Preconditions(engineIn)) =>
        LET rows == engineOut.yearlyBreakdown
        IN  /\ Num(Len(rows)) = engineIn.time
            /\ \A i \in 0 .. Len(rows) - 1 : rows[i + 1].year = Num(i + 1)

C9_Witness ==
    /\ Computed
    /\ engineIn.time = Num(MaxTime)
    /\ engineIn.frequency = "daily"
    /\ Preconditions(engineIn)
    /\ Len(engineOut.yearlyBreakdown) = MaxTime

\* C10: for valid params and each of the seven frequencies the amount of the
\* last row is the final amount.
C10_LastRowIsFinalAmount ==
    (Computed /\ Preconditions(engineIn)) =>
        /\ Len(engineOut.yearlyBreakdown) >= 1
        /\ engineOut.yearlyBreakdown[Len(engineOut.yearlyBreakdown)].amount
              = engineOut.finalAmount
        /\ engineOut.yearlyBreakdown[Index(engineIn.time)].amount = engineOut.finalAmount

C10_Witness ==
    /\ Computed
    /\ Preconditions(engineIn)
    /\ engineIn.frequency = "continuously"
    /\ engineIn.time = Num(MaxTime)
    /\ engineOut.yearlyBreakdown[MaxTime].amount = engineOut.finalAmount

\* the number of periods a year the contract gives each discrete frequency
DiscreteFrequencies == Frequencies \ {"continuously"}

PeriodsPerYear(frequency) ==
    CASE frequency = "annually" -> Num(1)
      [] frequency = "semi-annually" -> Num(2)
      [] frequency = "quarterly" -> Num(4)
      [] frequency = "monthly" -> Num(12)
      [] frequency = "weekly" -> Num(52)
      [] frequency = "daily" -> Num(365)

\* principal * (1 + (rate/100)/n)^(n * t)
DiscreteAmount(principal, rate, n, t) ==
    Mul(Lit(principal),
        Pow(Add(Lit(Num(1)), Div(Div(Lit(rate), Lit(Num(100))), Lit(n))),
            Mul(Lit(n), Lit(t))))

\* principal * (1 + rate/100)^t
AnnualAmount(principal, rate, t) ==
    Mul(Lit(principal), Pow(Add(Lit(Num(1)), Div(Lit(rate), Lit(Num(100)))), Lit(t)))

IsOne(e) == e.op = "lit" /\ e.x = Num(1)

\* the same double with no operation that is exact in IEEE 754 arithmetic:
\* x / 1 is x, and 1 * x is x
RECURSIVE Exact(_)
Exact(e) ==
    CASE e.op = "lit" -> e
      [] e.op = "exp" -> Exp(Exact(e.a))
      [] e.op = "pow" -> Pow(Exact(e.a), Exact(e.b))
      [] e.op = "+" -> Add(Exact(e.a), Exact(e.b))
      [] e.op = "-" -> Sub(Exact(e.a), Exact(e.b))
      [] e.op = "/" -> IF IsOne(e.b) THEN Exact(e.a) ELSE Div(Exact(e.a), Exact(e.b))
      [] e.op = "*" -> IF IsOne(e.a) THEN Exact(e.b) ELSE Mul(Exact(e.a), Exact(e.b))

\* C11: for valid params and each discrete frequency, with n = 1, 2, 4, 12,
\* 52, 365 periods a year, the final amount is principal * (1 +
\* (rate/100)/n)^(n * time) and the row of year y has the amount principal *
\* (1 + (rate/100)/n)^(n * y); for 'annually' the final amount is the double
\* principal * (1 + rate/100)^time.
C11_DiscreteFormula ==
    (Computed /\ Preconditions(engineIn) /\ engineIn.frequency \in DiscreteFrequencies) =>
        LET n == PeriodsPerYear(engineIn.frequency)
            rows == engineOut.yearlyBreakdown
        IN  /\ Term(engineOut.finalAmount) =
                  DiscreteAmount(engineIn.principal, engineIn.rate, n, engineIn.time)
            /\ \A y \in DOMAIN rows :
                  Term(rows[y].amount) =
                     DiscreteAmount(engineIn.principal, engineIn.rate, n, Num(y))
            /\ engineIn.frequency = "annually" =>
                  Exact(Term(engineOut.finalAmount)) =
                     AnnualAmount(engineIn.principal, engineIn.rate, engineIn.time)

C11_Witness ==
    /\ Computed
    /\ Preconditions(engineIn)
    /\ engineIn.frequency = "weekly"
    /\ engineIn.time = Num(2)
    /\ Len(engineOut.yearlyBreakdown) = 2
    /\ Term(engineOut.yearlyBreakdown[2].amount) =
          DiscreteAmount(engineIn.principal, engineIn.rate, Num(52), Num(2))

\* C12: for valid params the interest earned of the row of year y is the
\* amount of that row minus the amount of the row before it, and minus the
\* principal for year 1; with time = 1 the interest earned of the one row is
\* the final amount minus the principal.
C12_InterestEarned ==
    (Computed /\ Preconditions(engineIn)) =>
        LET rows == engineOut.yearlyBreakdown
        IN  /\ \A y \in DOMAIN rows :
                  Term(rows[y].interestEarned) =
                     Sub(Term(rows[y].amount),
                         IF y = 1 THEN Lit(engineIn.principal)
                         ELSE Term(rows[y - 1].amount))
            /\ Term(rows[1].interestEarned) =
                  Sub(Term(rows[1].amount), Lit(engineIn.principal))
            /\ engineIn.time = Num(1) =>
                  /\ Len(rows) = 1
                  /\ Term(rows[1].interestEarned) =
                        Sub(Term(engineOut.finalAmount), Lit(engineIn.principal))

C12_Witness ==
    /\ Computed
    /\ Preconditions(engineIn)
    /\ engineIn.time = Num(2)
    /\ engineIn.frequency = "monthly"
    /\ Term(engineOut.yearlyBreakdown[2].interestEarned) =
          Sub(Term(engineOut.yearlyBreakdown[2].amount),
              Term(engineOut.yearlyBreakdown[1].amount))

\* C13: for valid params and every frequency the total interest is the
\* final amount minus the principal.
C13_TotalInterest ==
    (Computed /\ Preconditions(engineIn)) =>
        Term(engineOut.totalInterest) =
           Sub(Term(engineOut.finalAmount), Lit(engineIn.principal))

C13_Witness ==
    /\ Computed
    /\ Preconditions(engineIn)
    /\ engineIn.frequency = "quarterly"
    /\ engineIn.principal = Num(1) + 1
    /\ Term(engineOut.totalInterest) = Sub(Term(engineOut.finalAmount), Lit(Num(1) + 1))

\* a row carries a date
CarriesDate(row) == row.date.type # "undefined"

\* C14: for valid params every row carries a date if and only if a start
\* date was supplied; the date of the row of year y is then the start date
\* with y added to its year, with the same month and day.
C14_RowDates ==
    (Computed /\ Preconditions(engineIn)) =>
        LET rows == engineOut.yearlyBreakdown
            startDate == engineIn.startDate
        IN  \A y \in DOMAIN rows :
              /\ CarriesDate(rows[y]) <=> startDate.type = "Date"
              /\ startDate.type = "Date" =>
                    rows[y].date = DateString(startDate.y + y, startDate.m, startDate.d, "date")

---------------------------------------------------------------------------
(* The claims about the form, under UISpec *)

InvalidInput(p) ==
    p.principal <= 0 \/ p.rate <= 0 \/ p.time <= 0 \/ ~IsInteger(p.time)

ReportsInvalidField(title, p) ==
    \/ title = "Invalid Principal" /\ p.principal <= 0
    \/ title = "Invalid Interest Rate" /\ p.rate <= 0
    \/ title = "Invalid Time Period" /\ (p.time <= 0 \/ ~IsInteger(p.time))

\* C7: a submit of invalid input calls the engine not at all, leaves the
\* history and the params shown as they were, and reports an invalid field;
\* every call of the engine by the form has principal > 0, rate > 0 and a
\* positive whole time.
C7_InvalidInputStopsAtTheForm ==
    [][Step("submit") =>
          /\ last'.params = formParams
          /\ InvalidInput(formParams) =>
                /\ last'.engine = <<>>
                /\ storage' = storage
                /\ calculationParams' = calculationParams
                /\ last'.toasts = <<toast'>>
                /\ ReportsInvalidField(toast', formParams)
          /\ \A i \in DOMAIN last'.engine : ~InvalidInput(last'.engine[i])]_vars

C7_Witness ==
    /\ last.op = "submit"
    /\ last.params.principal > 0
    /\ last.params.rate > 0
    /\ last.params.time = Num(2) + 1
    /\ last.engine = <<>>
    /\ toast = "Invalid Time Period"
    /\ storage = Null
    /\ calculationParams = Null

\* C8: when the write of a save is refused, the form still hands the params
\* to the results view and tells the user that the calculation was not saved.
C8_RefusedWriteStillShowsResult ==
    (last.op = "submit" /\ last.threw /\ last.error = "QuotaExceededError") =>
        /\ calculationParams = last.params
        /\ last.toasts # <<>>

\* C15: from an empty history, after any sequence of edits of the form,
\* submits, selections in the history, deletions and clear-alls, every record
\* of the stored history has principal > 0, rate > 0, a positive whole time
\* and one of the seven frequencies.
C15_StoredRecordsAreValid ==
    IsCollection(storage) =>
        \A i \in DOMAIN Collection(storage) :
            LET record == Collection(storage)[i]
            IN  /\ record.principal > 0
                /\ record.rate > 0
                /\ record.time > 0
                /\ IsInteger(record.time)
                /\ record.frequency \in Frequencies

\* a record stored by a submit, after a frequency was selected in the form
C15_Witness ==
    /\ last.op = "submit"
    /\ ~last.threw
    /\ last.engine = <<formParams>>
    /\ Len(Collection(storage)) = 1
    /\ CarriesNumbers(Head(Collection(storage)), formParams)
    /\ formParams.frequency = "continuously"
    /\ formParams.time = Num(10)

===========================================================================
